---- MODULE Spec2Model ----
(***************************************************************************)
(* Bill generator (src/src/lib/billGenerator.ts, class BillGenerator, and  *)
(* the generateBills handler of src/src/components/DateSettings.tsx).      *)
(*                                                                         *)
(* Representation.                                                         *)
(*  - A string that holds a date is the sequence of the parts that         *)
(*    split("-") yields; a part is a sequence of characters; a character   *)
(*    is a digit 0..9 or Letter (any character that is no digit and no     *)
(*    hyphen).  "01-05-2025" is <<<<0,1>>, <<0,5>>, <<2,0,2,5>>>>, the     *)
(*    empty string is << <<>> >>.                                          *)
(*  - An optional value (x | undefined, Date | null) is <<>> when absent   *)
(*    and <<x>> when present.                                              *)
(*  - A Date object is its time value, counted in hours since              *)
(*    1970-01-01T00:00Z (every time value the program builds is a whole    *)
(*    number of hours).  The local fields of a Date are read through the   *)
(*    time zone of the host, tz.                                           *)
(*  - A function that may throw yields [ok, value, error].                 *)
(***************************************************************************)
EXTENDS Integers, Sequences, FiniteSets, TLC

VARIABLES
    tz,          \* time zone of the host (environment of every Date call)
    config,      \* the BillConfig handed to createBillData / generateBills
    call,        \* the entry point that was invoked
    pc,          \* control position inside the invoked entry point
    args,        \* arguments of the running callee
    units,       \* generateUnitsDistribution: const units
    remaining,   \* generateUnitsDistribution: let remaining
    i,           \* generateUnitsDistribution: loop index i
    validDates,  \* createBillData: const validDates
    result,      \* value returned by the entry point (or by the callee)
    error,       \* message of the Error thrown, "" when none
    billData,    \* BillGeneratorApp: billData state
    templateFile,     \* BillGeneratorApp: templateFile state (File | null)
    isGeneratingZip,  \* BillGeneratorApp: isGeneratingZip state
    toasts,      \* the toasts shown so far
    zip,         \* generateExcelBillsAsZip: the files of const zip
    inFlight,    \* the records whose population has started and not settled
    outcomes,    \* per record, what its population settled with
    attempt,     \* loadExcelJS: loop variable attempt
    lastError,   \* loadExcelJS: let lastError (message, "" for null)
    timers,      \* the delays of the setTimeout calls awaited so far
    imports,     \* loadExcelJS: what each import("exceljs") so far settled with
    clock,       \* validateExcelTemplate: seconds since the load was started
    loadPromise, \* validateExcelTemplate: state of workbook.xlsx.load(buffer)
    activeTab,        \* BillGeneratorApp: activeTab state
    isGenerating,     \* BillGeneratorApp: isGenerating state
    isGeneratingPDF,  \* BillGeneratorApp: isGeneratingPDF state
    dateMode,         \* BillGeneratorApp: dateMode state
    exactStartDate,   \* BillGeneratorApp: exactStartDate state
    exactEndDate,     \* BillGeneratorApp: exactEndDate state
    specificDates,    \* BillGeneratorApp: specificDates state
    savedPresets,     \* BillGeneratorApp: savedPresets state
    exports,          \* the export batches started and not finished, by kind
    selectedFile,     \* TemplateUploader: selectedFile state
    validationResult, \* TemplateUploader: validationResult state
    cellMapping,      \* BillGeneratorApp: cellMapping state (prop of the uploader)
    isValidating,     \* TemplateUploader: isValidating state
    validations       \* the validateTemplate calls that are awaiting

\* The state of a batch export.
batch == <<templateFile, isGeneratingZip, toasts, zip, inFlight, outcomes>>

\* The state of loadExcelJS and of the load of a template.
loader == <<attempt, lastError, timers, imports, clock, loadPromise>>

\* The date settings of the app.
dateState == <<dateMode, exactStartDate, exactEndDate, specificDates>>

\* The state of BillGeneratorApp besides config, billData and the batch.
app == <<activeTab, isGenerating, isGeneratingPDF, dateState, savedPresets,
         exports>>

\* The state of TemplateUploader.
uploader == <<selectedFile, validationResult, cellMapping, isValidating,
              validations>>

\* The state of the app that generateBills leaves alone.
appOther == <<isGeneratingPDF, dateState, savedPresets, exports>>

ui == <<loader, app, uploader>>

vars == <<tz, config, call, pc, args, units, remaining, i, validDates,
          result, error, billData, batch, ui>>

\* No batch export is running and none has run.
NoBatch ==
    /\ templateFile = <<>>
    /\ isGeneratingZip = FALSE
    /\ toasts = <<>>
    /\ zip = <<>>
    /\ inFlight = {}
    /\ outcomes = <<>>

\* The app as it is first rendered, no library load and no validation started.
NoUi ==
    /\ attempt = 0
    /\ lastError = ""
    /\ timers = <<>>
    /\ imports = <<>>
    /\ clock = 0
    /\ loadPromise = "none"
    /\ activeTab = "config"
    /\ isGenerating = FALSE
    /\ isGeneratingPDF = FALSE
    /\ dateMode = "month-range"
    /\ exactStartDate = << <<>> >>   \* useState("")
    /\ exactEndDate = << <<>> >>
    /\ specificDates = <<>>
    /\ savedPresets = <<>>
    /\ exports = [zip |-> 0, pdf |-> 0]
    /\ selectedFile = <<>>
    /\ validationResult = <<>>
    /\ cellMapping = <<>>
    /\ isValidating = FALSE
    /\ validations = {}

----------------------------------------------------------------------------
(* Generic helpers *)

Min(a, b) == IF a <= b THEN a ELSE b

Undefined == <<>>
Some(x) == <<x>>
IsDefined(o) == o # <<>>
Get(o) == o[1]

Return(v) == [ok |-> TRUE, value |-> v, error |-> ""]
Throw(msg) == [ok |-> FALSE, value |-> <<>>, error |-> msg]

RECURSIVE SumSeq(_)
SumSeq(s) == IF s = <<>> THEN 0 ELSE Head(s) + SumSeq(Tail(s))

Front(s) == SubSeq(s, 1, Len(s) - 1)
Last(s) == s[Len(s)]

----------------------------------------------------------------------------
(* The calendar behind the ECMAScript Date object *)

HoursPerDay == 24

\* Days since 1970-01-01 of the proleptic Gregorian date y-m-d (m in 1..12;
\* d may lie outside the month and then runs into the neighbouring months).
DaysFromShifted(yy, mp, d) ==
    (yy \div 400) * 146097 + (yy % 400) * 365 + (yy % 400) \div 4
        - (yy % 400) \div 100 + (153 * mp + 2) \div 5 + d - 1 - 719468

DaysFromCivil(y, m, d) ==
    DaysFromShifted(IF m <= 2 THEN y - 1 ELSE y, IF m > 2 THEN m - 3 ELSE m + 9, d)

\* The civil date [year, month (1..12), day] of day number z.
CivilOf(era, yoe, doy, mp) ==
    [year  |-> yoe + era * 400 + (IF mp < 10 THEN 0 ELSE 1),
     month |-> IF mp < 10 THEN mp + 3 ELSE mp - 9,
     day   |-> doy - (153 * mp + 2) \div 5 + 1]

CivilFromDoy(era, yoe, doy) == CivilOf(era, yoe, doy, (5 * doy + 2) \div 153)

CivilFromYoe(era, doe, yoe) ==
    CivilFromDoy(era, yoe, doe - (365 * yoe + yoe \div 4 - yoe \div 100))

CivilFromDoe(era, doe) ==
    CivilFromYoe(era, doe,
        (doe - doe \div 1460 + doe \div 36524 - doe \div 146096) \div 365)

CivilFromDays(z) ==
    CivilFromDoe((z + 719468) \div 146097, (z + 719468) % 146097)

\* 0 = Sunday .. 6 = Saturday; 1970-01-01 was a Thursday.
WeekdayOfDays(z) == (z + 4) % 7

\* Time zones of the host.  "UTC" never shifts.  "Europe/Berlin" is UTC+1, and
\* UTC+2 from the last Sunday of March, 01:00 UTC, to the last Sunday of
\* October, 01:00 UTC (the shifts of the years 2023..2026 are modelled).
TimeZones == {"UTC", "Europe/Berlin"}

LastSunday(y, m) ==
    DaysFromCivil(y, m, 31) - WeekdayOfDays(DaysFromCivil(y, m, 31))

SummerTime ==
    {<<LastSunday(y, 3) * HoursPerDay + 1, LastSunday(y, 10) * HoursPerDay + 1>> :
        y \in 2023..2026}

\* Offset of local time from UTC, in hours, at the instant t.
OffsetAt(t) ==
    IF tz = "UTC" THEN 0
    ELSE IF \E s \in SummerTime : s[1] <= t /\ t < s[2] THEN 2 ELSE 1

\* The instant whose local wall clock reads `wall` (hours since the local
\* 1970-01-01T00:00).  A wall time skipped by a shift is read with the offset
\* in force before the shift.
LocalToTime(wall) ==
    IF tz = "UTC" THEN wall
    ELSE IF (wall - 2) + OffsetAt(wall - 2) = wall THEN wall - 2 ELSE wall - 1

\* new Date(year, monthIndex, day): local midnight; monthIndex and day
\* overflow into the neighbouring months and years; a year 0..99 means 1900+year.
NewDate(year, monthIndex, day) ==
    LocalToTime(
        (DaysFromCivil((IF 0 <= year /\ year <= 99 THEN 1900 + year ELSE year)
                           + monthIndex \div 12,
                       (monthIndex % 12) + 1, 1)
         + day - 1) * HoursPerDay)

LocalWall(t) == t + OffsetAt(t)
LocalFields(t) == CivilFromDays(LocalWall(t) \div HoursPerDay)
getDate(t) == LocalFields(t).day
getMonth(t) == LocalFields(t).month - 1
getFullYear(t) == LocalFields(t).year
getDay(t) == WeekdayOfDays(LocalWall(t) \div HoursPerDay)
getTime(t) == t

\* date.setDate(n): same local year, month and time of day, day of month n.
SetDateFields(f, hh, n) ==
    LocalToTime((DaysFromCivil(f.year, f.month, 1) + n - 1) * HoursPerDay + hh)

setDate(t, n) == SetDateFields(LocalFields(t), LocalWall(t) % HoursPerDay, n)

----------------------------------------------------------------------------
(* Strings that hold dates *)

Letter == 10
EmptyString == << <<>> >>

\* A string operand of && : undefined and "" are falsy.
Truthy(o) == IsDefined(o) /\ Get(o) # EmptyString

IsDigits(part) == \A k \in 1..Len(part) : part[k] \in 0..9

\* Number(part) for a part made of digits only; Number("") is 0.
RECURSIVE NumberOf(_)
NumberOf(part) ==
    IF part = <<>> THEN 0 ELSE 10 * NumberOf(Front(part)) + Last(part)

\* String(n) for n >= 0
RECURSIVE Digits(_)
Digits(n) == IF n < 10 THEN <<n>> ELSE Digits(n \div 10) \o <<n % 10>>

\* String(n).padStart(2, "0")
PadStart2(n) == IF Len(Digits(n)) < 2 THEN <<0>> \o Digits(n) ELSE Digits(n)

formatDate(date) ==
    <<PadStart2(getDate(date)), PadStart2(getMonth(date) + 1),
      Digits(getFullYear(date))>>

\* parseDate: Date | null.  A missing or non-numeric part makes day, month or
\* year NaN, the Date invalid and every comparison `!==` true: null.  Parts
\* after the third are dropped by the destructuring.
ParseDateCheck(day, month, year, date) ==
    IF getDate(date) # day \/ getMonth(date) # month - 1
          \/ getFullYear(date) # year
    THEN Undefined
    ELSE Some(date)

ParseDateParts(day, month, year) ==
    ParseDateCheck(day, month, year, NewDate(year, month - 1, day))

parseDate(dateString) ==
    IF Len(dateString) < 3
          \/ ~ IsDigits(dateString[1]) \/ ~ IsDigits(dateString[2])
          \/ ~ IsDigits(dateString[3])
    THEN Undefined
    ELSE ParseDateParts(NumberOf(dateString[1]), NumberOf(dateString[2]),
                        NumberOf(dateString[3]))

\* /^\d{1,2}-\d{1,2}-\d{4}$/ and parseDate(dateString) !== null
validateDateFormat(dateString) ==
    LET regex == /\ Len(dateString) = 3
                 /\ \A k \in 1..3 : IsDigits(dateString[k])
                 /\ Len(dateString[1]) \in 1..2
                 /\ Len(dateString[2]) \in 1..2
                 /\ Len(dateString[3]) = 4
    IN  IF ~ regex THEN FALSE ELSE parseDate(dateString) # Undefined

----------------------------------------------------------------------------
(* generateDateRange *)

\* specificDates.filter(date => parsed && !excludeWeekdays.includes(parsed.getDay()))
RECURSIVE FilterSpecificDates(_, _)
FilterSpecificDates(dates, excludeWeekdays) ==
    IF dates = <<>> THEN <<>>
    ELSE LET date == Head(dates)
             parsedDate == parseDate(date)
             keep == IF parsedDate = Undefined THEN FALSE
                     ELSE getDay(Get(parsedDate)) \notin excludeWeekdays
         IN  (IF keep THEN <<date>> ELSE <<>>)
                \o FilterSpecificDates(Tail(dates), excludeWeekdays)

\* (a, b) => dateA && dateB ? dateA.getTime() - dateB.getTime() : 0
CompareDates(a, b) ==
    LET dateA == parseDate(a)
        dateB == parseDate(b)
    IN  IF dateA # Undefined /\ dateB # Undefined
        THEN getTime(Get(dateA)) - getTime(Get(dateB))
        ELSE 0

\* Array.prototype.sort with CompareDates: a stable sort.
RECURSIVE InsertDate(_, _)
InsertDate(sorted, x) ==
    IF sorted = <<>> THEN <<x>>
    ELSE IF CompareDates(x, Last(sorted)) < 0
         THEN InsertDate(Front(sorted), x) \o <<Last(sorted)>>
         ELSE sorted \o <<x>>

RECURSIVE SortDates(_)
SortDates(dates) ==
    IF dates = <<>> THEN <<>>
    ELSE InsertDate(SortDates(Front(dates)), Last(dates))

\* Exact range: while (currentDate <= endDate) { push unless excluded; setDate(+1) }
RECURSIVE ExactRangeLoop(_, _, _)
ExactRangeLoop(currentDate, endDate, excludeWeekdays) ==
    IF currentDate <= endDate
    THEN (IF getDay(currentDate) \notin excludeWeekdays
          THEN <<formatDate(currentDate)>> ELSE <<>>)
         \o ExactRangeLoop(setDate(currentDate, getDate(currentDate) + 1),
                           endDate, excludeWeekdays)
    ELSE <<>>

\* Single month: last day of the month, read 24 hours before the next month.
LastDayOfMonth(startMonth, startYear) ==
    LET nextMonth == IF startMonth = 12 THEN NewDate(startYear + 1, 0, 1)
                     ELSE NewDate(startYear, startMonth, 1)
    IN  getDate(getTime(nextMonth) - HoursPerDay)

\* Single month: for (day = 1; day <= lastDay; day++) { push unless excluded }
RECURSIVE SingleMonthLoop(_, _, _, _, _)
SingleMonthLoop(day, lastDay, startMonth, startYear, excludeWeekdays) ==
    IF day <= lastDay
    THEN LET dateObj == NewDate(startYear, startMonth - 1, day)
         IN  (IF getDay(dateObj) \notin excludeWeekdays
              THEN <<formatDate(dateObj)>> ELSE <<>>)
             \o SingleMonthLoop(day + 1, lastDay, startMonth, startYear,
                                excludeWeekdays)
    ELSE <<>>

\* Multi month: while (currentDate <= finalDate) { push unless excluded; setDate(+1) }
RECURSIVE MultiMonthLoop(_, _, _)
MultiMonthLoop(currentDate, finalDate, excludeWeekdays) ==
    IF currentDate <= finalDate
    THEN (IF getDay(currentDate) \notin excludeWeekdays
          THEN <<formatDate(currentDate)>> ELSE <<>>)
         \o MultiMonthLoop(setDate(currentDate, getDate(currentDate) + 1),
                           finalDate, excludeWeekdays)
    ELSE <<>>

\* Default branch of generateDateRange: month range mode.
MonthRangeDates(startMonth, startYear, endMonth, endYear, excludeWeekdays) ==
    LET startDate == NewDate(startYear, startMonth - 1, 1)
        endDate   == NewDate(endYear, endMonth - 1, 1)
        dates == IF startMonth = endMonth /\ startYear = endYear
                 THEN SingleMonthLoop(1, LastDayOfMonth(startMonth, startYear),
                                      startMonth, startYear, excludeWeekdays)
                 ELSE MultiMonthLoop(startDate, NewDate(endYear, endMonth, 0),
                                     excludeWeekdays)
    IN  IF startDate > endDate
        THEN Throw("Start date cannot be after end date")
        ELSE IF Len(dates) = 0
             THEN Throw("No valid dates found with the given constraints")
             ELSE Return(dates)

\* Branch of generateDateRange for exact-range mode.
ExactRangeDates(startString, endString, excludeWeekdays) ==
    LET startDate == parseDate(startString)
        endDate   == parseDate(endString)
        dates == ExactRangeLoop(Get(startDate), Get(endDate), excludeWeekdays)
    IN  IF startDate = Undefined \/ endDate = Undefined
        THEN Throw("Invalid start or end date format")
        ELSE IF Get(startDate) > Get(endDate)
             THEN Throw("Start date cannot be after end date")
             ELSE IF Len(dates) = 0
                  THEN Throw("No valid dates found in the specified date range")
                  ELSE Return(dates)

\* Branch of generateDateRange for specific-dates mode.
SpecificDates(dateStrings, excludeWeekdays) ==
    LET dates == FilterSpecificDates(dateStrings, excludeWeekdays)
    IN  IF Len(dates) = 0
        THEN Throw("No valid dates found in the specified dates")
        ELSE Return(SortDates(dates))

\* cfg is the optional sixth argument: [dateMode, exactStartDate, exactEndDate,
\* specificDates], each optional.
generateDateRange(startMonth, startYear, endMonth, endYear, excludeWeekdays, cfg) ==
    IF cfg.dateMode = Some("specific-dates")
          /\ IsDefined(cfg.specificDates) /\ Len(Get(cfg.specificDates)) # 0
    THEN SpecificDates(Get(cfg.specificDates), excludeWeekdays)
    ELSE IF cfg.dateMode = Some("exact-range")
               /\ Truthy(cfg.exactStartDate) /\ Truthy(cfg.exactEndDate)
         THEN ExactRangeDates(Get(cfg.exactStartDate), Get(cfg.exactEndDate),
                              excludeWeekdays)
         ELSE MonthRangeDates(startMonth, startYear, endMonth, endYear,
                              excludeWeekdays)

----------------------------------------------------------------------------
(* generateUnitsDistribution: validation *)

\* Mutant of calculateNumBills: the range counted without its last number.
calculateNumBills_exclusive(start, end) == end - start

calculateNumBills(start, end) == end - start + 1

\* Mutant of UnitsDistributionError: the test of the upper limit is missing.
UnitsDistributionError_noUpper(totalUnits, numBills, minUnits, maxUnits) ==
    IF minUnits <= 0 THEN "Minimum units per bill must be greater than 0"
    ELSE IF maxUnits <= 0 THEN "Maximum units per bill must be greater than 0"
    ELSE IF minUnits > maxUnits
         THEN "Minimum units cannot be greater than maximum units"
    ELSE IF totalUnits <= 0 THEN "Total units to sell must be greater than 0"
    ELSE IF numBills <= 0 THEN "Number of bills must be greater than 0"
    ELSE IF totalUnits < numBills * minUnits
         THEN "Cannot distribute: total units below minimum possible total"
    ELSE ""

\* The if-chain that opens generateUnitsDistribution: the message of the
\* Error it throws, "" when it throws none.
UnitsDistributionError(totalUnits, numBills, minUnits, maxUnits) ==
    LET minPossibleTotal == numBills * minUnits
        maxPossibleTotal == numBills * maxUnits
    IN  IF minUnits <= 0 THEN "Minimum units per bill must be greater than 0"
        ELSE IF maxUnits <= 0 THEN "Maximum units per bill must be greater than 0"
        ELSE IF minUnits > maxUnits
             THEN "Minimum units cannot be greater than maximum units"
        ELSE IF totalUnits <= 0 THEN "Total units to sell must be greater than 0"
        ELSE IF numBills <= 0 THEN "Number of bills must be greater than 0"
        ELSE IF totalUnits < minPossibleTotal
             THEN "Cannot distribute: total units below minimum possible total"
        ELSE IF totalUnits > maxPossibleTotal
             THEN "Cannot distribute: total units above maximum possible total"
        ELSE ""

\* Mutant of MaxAdd: the room left in the slot is not looked at.
MaxAdd_uncapped(rem, maxUnits, unitsI) == rem

\* const maxAdd = Math.min(remaining, maxUnits - units[i])
MaxAdd(rem, maxUnits, unitsI) == Min(rem, maxUnits - unitsI)

\* Math.floor(Math.random() * (n + 1)) with Math.random() in [0, 1)
RandomUpTo(n) == 0..n

----------------------------------------------------------------------------
(* distributeInvoicesAcrossDates *)

\* Mutant of InvoicesPerDate: one more than the quotient rounded down.
InvoicesPerDate_roundedUp(numBills, len) == numBills \div len + 1

\* Math.ceil(numBills / availableDates.length)
InvoicesPerDate(numBills, len) == (numBills + len - 1) \div len

\* for (i = 0; i < numBills; i++) push(availableDates[floor(i / perDate) % len])
RECURSIVE DistributeLoop(_, _, _, _)
DistributeLoop(k, numBills, invoicesPerDate, availableDates) ==
    IF k < numBills
    THEN LET dateIndex == (k \div invoicesPerDate) % Len(availableDates)
         IN  <<availableDates[dateIndex + 1]>>
                \o DistributeLoop(k + 1, numBills, invoicesPerDate, availableDates)
    ELSE <<>>

\* for (i = distributedDates.length; i < numBills; i++) push(availableDates[i % len])
RECURSIVE CyclicLoop(_, _, _)
CyclicLoop(k, numBills, availableDates) ==
    IF k < numBills
    THEN <<availableDates[(k % Len(availableDates)) + 1]>>
            \o CyclicLoop(k + 1, numBills, availableDates)
    ELSE <<>>

distributeInvoicesAcrossDates(numBills, availableDates) ==
    IF Len(availableDates) = 0
    THEN Throw("No available dates for invoice distribution")
    ELSE LET invoicesPerDate == InvoicesPerDate(numBills, Len(availableDates))
             distributedDates ==
                 DistributeLoop(0, numBills, invoicesPerDate, availableDates)
         IN  Return(distributedDates
                    \o CyclicLoop(Len(distributedDates), numBills, availableDates))

----------------------------------------------------------------------------
(* validateConfigurationLimits *)

RECURSIVE CountValidFormat(_)
CountValidFormat(dates) ==
    IF dates = <<>> THEN 0
    ELSE (IF validateDateFormat(Head(dates)) THEN 1 ELSE 0)
            + CountValidFormat(Tail(dates))

\* The errors array that validateConfigurationLimits returns.
validateConfigurationLimits(cfg) ==
    LET numBills == calculateNumBills(cfg.invoiceStart, cfg.invoiceEnd)
        minPossibleTotal == numBills * cfg.minUnitsPerBill
        maxPossibleTotal == numBills * cfg.maxUnitsPerBill
        tooLow  == IF cfg.totalUnitsToSell < minPossibleTotal
                   THEN <<"Total units is too low">> ELSE <<>>
        tooHigh == IF cfg.totalUnitsToSell > maxPossibleTotal
                   THEN <<"Total units is too high">> ELSE <<>>
        specific ==
            IF cfg.dateMode = Some("specific-dates") /\ IsDefined(cfg.specificDates)
                  /\ ~ cfg.allowMultipleInvoicesPerDay
                  /\ CountValidFormat(Get(cfg.specificDates)) < numBills
            THEN <<"Not enough valid specific dates">> ELSE <<>>
        exact ==
            IF cfg.dateMode # Some("exact-range") THEN <<>>
            ELSE IF ~ Truthy(cfg.exactStartDate) \/ ~ Truthy(cfg.exactEndDate)
                 THEN <<"Both start date and end date are required">>
                 ELSE LET startDate == parseDate(Get(cfg.exactStartDate))
                          endDate   == parseDate(Get(cfg.exactEndDate))
                      IN  IF startDate = Undefined \/ endDate = Undefined
                          THEN <<"Invalid date format">>
                          ELSE IF Get(startDate) > Get(endDate)
                               THEN <<"Start date cannot be after end date.">>
                               ELSE <<>>
    IN  tooLow \o tooHigh \o specific \o exact

----------------------------------------------------------------------------
(* createBillData *)

\* config.dateMode || "month-range"
DateModeOrDefault(cfg) ==
    IF IsDefined(cfg.dateMode) THEN cfg.dateMode ELSE Some("month-range")

\* const validDates = this.generateDateRange(...)
ExpandedDates(cfg) ==
    generateDateRange(
        cfg.startMonth, cfg.startYear, cfg.endMonth, cfg.endYear,
        cfg.excludeWeekdays,
        [dateMode       |-> DateModeOrDefault(cfg),
         exactStartDate |-> cfg.exactStartDate,
         exactEndDate   |-> cfg.exactEndDate,
         specificDates  |-> cfg.specificDates])

\* The part of createBillData before the call of generateUnitsDistribution:
\* the dates it goes on with, or the Error it throws.
CreateBillDataDates(cfg) ==
    LET numBills == calculateNumBills(cfg.invoiceStart, cfg.invoiceEnd)
        dates == ExpandedDates(cfg)
    IN  IF cfg.invoiceStart <= 0 \/ cfg.invoiceEnd <= 0
        THEN Throw("Invoice numbers must be greater than 0")
        ELSE IF cfg.invoiceStart > cfg.invoiceEnd
        THEN Throw("Invoice start cannot be greater than invoice end")
        ELSE IF ~ dates.ok THEN dates
        ELSE IF Len(dates.value) = 0
        THEN Throw("No valid dates found with the given constraints")
        ELSE IF ~ cfg.allowMultipleInvoicesPerDay /\ Len(dates.value) < numBills
        THEN Throw("Not enough valid dates for the number of bills")
        ELSE dates

\* Mutant of BillRecord: the dates are taken from the second one on, cyclically.
BillRecord_shifted(cfg, k, dates, unitsList) ==
    [billNo |-> cfg.invoiceStart + k,
     date   |-> dates[((k + 1) % Len(dates)) + 1],
     units  |-> unitsList[k + 1],
     amount |-> unitsList[k + 1] * cfg.unitPrice]

\* Record i (0-based) of the bill data.
BillRecord(cfg, k, dates, unitsList) ==
    [billNo |-> cfg.invoiceStart + k,
     date   |-> dates[k + 1],
     units  |-> unitsList[k + 1],
     amount |-> unitsList[k + 1] * cfg.unitPrice]

\* The part of createBillData after generateUnitsDistribution has returned.
CreateBillDataRecords(cfg, dates, unitsList) ==
    LET numBills == calculateNumBills(cfg.invoiceStart, cfg.invoiceEnd)
        distributed == distributeInvoicesAcrossDates(numBills, dates)
    IN  IF cfg.allowMultipleInvoicesPerDay
        THEN IF ~ distributed.ok THEN distributed
             ELSE Return([k \in 1..numBills |->
                            BillRecord(cfg, k - 1, distributed.value, unitsList)])
        ELSE Return([k \in 1..numBills |->
                            BillRecord(cfg, k - 1, dates, unitsList)])

\* Mutant of Finally: the finally block does not run.
Finally_skipped(generating, position) == generating

\* generateBills: finally { setIsGenerating(false) } runs once the try block
\* is left by the return after the validation or by a throw; isGenerating
\* after a step that began with it at `generating` and led to `position`.
Finally(generating, position) == generating /\ position # "failed"

----------------------------------------------------------------------------
(* Bounds and inputs *)

MaxTotalUnits == 9      \* generateUnitsDistribution called directly: totalUnits
MaxNumBills == 3        \* ... numBills
MaxUnitsPerBill == 3    \* ... minUnits, maxUnits
MaxInvoice == 3         \* createBillData: invoiceStart, invoiceEnd
MaxSpecificDates == 2   \* length of config.specificDates
MaxSpanMonths == 2      \* month range: months from start month to end month
MaxAssignBills == 10    \* distributeInvoicesAcrossDates called directly: numBills
MaxAssignDates == 5     \* ... availableDates.length
MaxBatchRecords == 3    \* batch export: billData.length

\* The canonical string DD-MM-YYYY of a day, month and year.
DateString(d, m, y) == <<PadStart2(d), PadStart2(m), Digits(y)>>

Years == {2024, 2025}

----------------------------------------------------------------------------
(* generateUnitsDistribution, step by step.  pc:                           *)
(*   "generateUnitsDistribution"  entered, nothing done yet                *)
(*   "allocate"   inside the for loop of the while loop, at index i        *)
(*   "shuffle"    inside the shuffle loop, at index i                      *)
(*   "returned"   has returned `result`                                    *)
(*   "failed"     has thrown `error`                                       *)

\* Validation, const units = new Array(numBills).fill(minUnits), let remaining.
DistributionEnter ==
    /\ pc = "generateUnitsDistribution"
    /\ LET e == UnitsDistributionError(args.totalUnits, args.numBills,
                                       args.minUnits, args.maxUnits)
           rem == args.totalUnits - args.numBills * args.minUnits
       IN  IF e # ""
           THEN /\ pc' = "failed"
                /\ error' = e
                /\ UNCHANGED <<units, remaining, i>>
           ELSE /\ units' = [k \in 1..args.numBills |-> args.minUnits]
                /\ remaining' = rem
                /\ pc' = IF rem > 0 THEN "allocate" ELSE "shuffle"
                /\ i' = IF rem > 0 THEN 0 ELSE args.numBills - 1
                /\ error' = error
    /\ UNCHANGED batch
    /\ isGenerating' = Finally(isGenerating, pc')
    /\ UNCHANGED <<activeTab, appOther>>
    /\ UNCHANGED <<loader, uploader>>
    /\ UNCHANGED <<tz, config, call, args, validDates, result, billData>>

\* One pass through the body of  for (i = 0; i < numBills && remaining > 0; i++)
\* and the loop tests that follow it.
AllocateStep ==
    /\ pc = "allocate"
    /\ LET maxAdd == MaxAdd(remaining, args.maxUnits, units[i + 1])
       IN  \E add \in (IF maxAdd > 0 THEN RandomUpTo(maxAdd) ELSE {0}) :
              /\ units' = [units EXCEPT ![i + 1] = @ + add]
              /\ remaining' = remaining - add
              /\ IF remaining - add > 0
                 THEN /\ pc' = "allocate"
                      /\ i' = IF i + 1 < args.numBills THEN i + 1 ELSE 0
                 ELSE /\ pc' = "shuffle"
                      /\ i' = Len(units) - 1
    /\ UNCHANGED batch
    /\ UNCHANGED ui
    /\ UNCHANGED <<tz, config, call, args, validDates, result, error, billData>>

\* One pass through the body of  for (i = units.length - 1; i > 0; i--)
ShuffleStep ==
    /\ pc = "shuffle"
    /\ i > 0
    /\ \E j \in RandomUpTo(i) :
          units' = [units EXCEPT ![i + 1] = units[j + 1], ![j + 1] = units[i + 1]]
    /\ i' = i - 1
    /\ UNCHANGED batch
    /\ UNCHANGED ui
    /\ UNCHANGED <<tz, config, call, pc, args, remaining, validDates, result,
                   error, billData>>

\* return units
DistributionReturn ==
    /\ pc = "shuffle"
    /\ ~ (i > 0)
    /\ result' = units
    /\ pc' = "returned"
    /\ UNCHANGED batch
    /\ UNCHANGED ui
    /\ UNCHANGED <<tz, config, call, args, units, remaining, i, validDates,
                   error, billData>>

----------------------------------------------------------------------------
(* SpecDist: generateUnitsDistribution called on its own *)

NoConfig == <<>>

DistributionArgs ==
    [totalUnits : -1..MaxTotalUnits, numBills : -1..MaxNumBills,
     minUnits : -1..MaxUnitsPerBill, maxUnits : -1..MaxUnitsPerBill]

InitDist ==
    /\ tz = "UTC"
    /\ config = NoConfig
    /\ call = "generateUnitsDistribution"
    /\ pc = "generateUnitsDistribution"
    /\ args \in DistributionArgs
    /\ units = <<>>
    /\ remaining = 0
    /\ i = 0
    /\ validDates = <<>>
    /\ result = <<>>
    /\ error = ""
    /\ billData = <<>>
    /\ NoBatch
    /\ NoUi

NextDist == DistributionEnter \/ AllocateStep \/ ShuffleStep \/ DistributionReturn

SpecDist == InitDist /\ [][NextDist]_vars

\* A pass of the allocation loop whose draw is positive.
AllocatePositive == AllocateStep /\ remaining' < remaining

\* The function runs on, and a draw that can be positive is not zero for ever.
SpecDistFair == SpecDist /\ WF_vars(NextDist) /\ SF_vars(AllocatePositive)


----------------------------------------------------------------------------
(* createBillData and generateBills, step by step.  pc, besides the         *)
(* positions of generateUnitsDistribution:                                  *)
(*   "generateBills"   the handler was entered, nothing done yet            *)
(*   "createBillData"  createBillData was entered, nothing done yet         *)
(*   "created"         createBillData has returned `result`                 *)
(*   "done"            generateBills has installed the bill data            *)

\* generateBills up to its call of createBillData: validateConfigurationLimits.
GenerateBills ==
    /\ call = "generateBills"
    /\ pc = "generateBills"
    /\ LET errors == validateConfigurationLimits(config)
       IN  IF Len(errors) # 0
           THEN /\ pc' = "failed"
                /\ error' = errors[1]
           ELSE /\ pc' = "createBillData"
                /\ error' = error
    /\ UNCHANGED batch
    /\ isGenerating' = Finally(TRUE, pc')
    /\ UNCHANGED <<activeTab, appOther>>
    /\ UNCHANGED <<loader, uploader>>
    /\ UNCHANGED <<tz, config, call, args, units, remaining, i, validDates,
                   result, billData>>

\* createBillData up to its call of generateUnitsDistribution.
CreateBillData ==
    /\ pc = "createBillData"
    /\ LET dates == CreateBillDataDates(config)
       IN  IF ~ dates.ok
           THEN /\ pc' = "failed"
                /\ error' = dates.error
                /\ UNCHANGED <<validDates, args>>
           ELSE /\ validDates' = dates.value
                /\ args' = [totalUnits |-> config.totalUnitsToSell,
                            numBills   |-> calculateNumBills(config.invoiceStart,
                                                             config.invoiceEnd),
                            minUnits   |-> config.minUnitsPerBill,
                            maxUnits   |-> config.maxUnitsPerBill]
                /\ pc' = "generateUnitsDistribution"
                /\ error' = error
    /\ UNCHANGED batch
    /\ isGenerating' = Finally(isGenerating, pc')
    /\ UNCHANGED <<activeTab, appOther>>
    /\ UNCHANGED <<loader, uploader>>
    /\ UNCHANGED <<tz, config, call, units, remaining, i, result, billData>>

\* createBillData after generateUnitsDistribution has returned unitsList.
CreateBillDataReturn ==
    /\ call \in {"createBillData", "generateBills"}
    /\ pc = "returned"
    /\ LET data == CreateBillDataRecords(config, validDates, result)
       IN  IF ~ data.ok
           THEN /\ pc' = "failed"
                /\ error' = data.error
                /\ result' = <<>>
           ELSE /\ pc' = "created"
                /\ result' = data.value
                /\ error' = error
    /\ UNCHANGED batch
    /\ isGenerating' = Finally(isGenerating, pc')
    /\ UNCHANGED <<activeTab, appOther>>
    /\ UNCHANGED <<loader, uploader>>
    /\ UNCHANGED <<tz, config, call, args, units, remaining, i, validDates,
                   billData>>

\* generateBills after createBillData has returned: setBillData(data),
\* setActiveTab("preview"), and the finally block.
GenerateBillsInstall ==
    /\ call = "generateBills"
    /\ pc = "created"
    /\ billData' = result
    /\ pc' = "done"
    /\ UNCHANGED batch
    /\ activeTab' = "preview"
    /\ isGenerating' = FALSE
    /\ UNCHANGED appOther
    /\ UNCHANGED <<loader, uploader>>
    /\ UNCHANGED <<tz, config, call, args, units, remaining, i, validDates,
                   result, error>>

----------------------------------------------------------------------------
(* Spec: createBillData called on its own, and through generateBills *)

\* "1-05-2025": the first of May 2025 with a one-digit day.
ShortFirstOfMay == <<<<1>>, <<0, 5>>, <<2, 0, 2, 5>>>>

\* What the user may type into the "new date" field.
SpecificDateInputs ==
    {DateString(1, 5, 2025), ShortFirstOfMay, DateString(2, 5, 2025),
     DateString(31, 2, 2025), EmptyString}

\* addSpecificDate: the specificDates state after the handler has run with
\* newDate typed in (unchanged when the handler returns early).
addSpecificDate(dates, newDate) ==
    IF newDate = EmptyString THEN dates
    ELSE IF ~ validateDateFormat(newDate) THEN dates
    ELSE IF \E k \in 1..Len(dates) : dates[k] = newDate
         THEN dates
         ELSE SortDates(dates \o <<newDate>>)

\* The lists that at most n runs of addSpecificDate build from the empty list.
RECURSIVE SpecificDateLists(_)
SpecificDateLists(n) ==
    IF n = 0 THEN {<<>>}
    ELSE SpecificDateLists(n - 1)
            \cup {addSpecificDate(l, d) :
                    l \in SpecificDateLists(n - 1), d \in SpecificDateInputs}

ExactDateInputs ==
    {Undefined, Some(EmptyString), Some(DateString(1, 5, 2025)),
     Some(DateString(3, 5, 2025)), Some(DateString(31, 2, 2025))}

\* The date settings of a config: one mode, with the fields of that mode
\* varied and the others as the app first has them.
DateSettings(monthRanges, exactDates) ==
    {[dateMode |-> m, startMonth |-> r[1], startYear |-> r[2],
      endMonth |-> r[3], endYear |-> r[4], exactStartDate |-> Undefined,
      exactEndDate |-> Undefined, specificDates |-> Undefined] :
        m \in {Undefined, Some("month-range")}, r \in monthRanges}
    \cup
    {[dateMode |-> Some("exact-range"), startMonth |-> 5, startYear |-> 2025,
      endMonth |-> 5, endYear |-> 2025, exactStartDate |-> a,
      exactEndDate |-> b, specificDates |-> Undefined] :
        a \in exactDates, b \in exactDates}
    \cup
    {[dateMode |-> Some("specific-dates"), startMonth |-> 5, startYear |-> 2025,
      endMonth |-> 5, endYear |-> 2025, exactStartDate |-> Undefined,
      exactEndDate |-> Undefined, specificDates |-> l] :
        l \in {Undefined} \cup {Some(x) : x \in SpecificDateLists(MaxSpecificDates)}}

\* Thursday (the first of May 2025), and every day of the week.
ExcludeWeekdaySets == {{}, {4}, 0..6}

BillMonthRanges == {<<5, 2025, 5, 2025>>, <<6, 2025, 5, 2025>>}

\* What the unit price field holds after onConfigChange("unitPrice",
\* parseInt(e.target.value)): the preset's 400, or what the user typed, "-5".
UnitPrices == {400, -5}

Configs ==
    {ds @@ [invoiceStart |-> a, invoiceEnd |-> b, totalUnitsToSell |-> 3,
            minUnitsPerBill |-> 1, maxUnitsPerBill |-> 2, unitPrice |-> up,
            excludeWeekdays |-> ex, allowMultipleInvoicesPerDay |-> am] :
        ds \in DateSettings(BillMonthRanges, ExactDateInputs), a \in 0..2, b \in 0..MaxInvoice,
        ex \in ExcludeWeekdaySets, am \in BOOLEAN, up \in UnitPrices}

Init ==
    /\ tz \in TimeZones
    /\ config \in Configs
    /\ call \in {"createBillData", "generateBills"}
    /\ pc = call
    /\ args = <<>>
    /\ units = <<>>
    /\ remaining = 0
    /\ i = 0
    /\ validDates = <<>>
    /\ result = <<>>
    /\ error = ""
    /\ billData = <<>>
    /\ NoBatch
    /\ NoUi

Next ==
    \/ GenerateBills
    \/ CreateBillData
    \/ DistributionEnter
    \/ AllocateStep
    \/ ShuffleStep
    \/ DistributionReturn
    \/ CreateBillDataReturn
    \/ GenerateBillsInstall

Spec == Init /\ [][Next]_vars

----------------------------------------------------------------------------
(* SpecDates: generateDateRange called on its own *)

GenerateDateRange ==
    /\ pc = "generateDateRange"
    /\ LET dates == generateDateRange(
                       config.startMonth, config.startYear, config.endMonth,
                       config.endYear, config.excludeWeekdays,
                       [dateMode       |-> config.dateMode,
                        exactStartDate |-> config.exactStartDate,
                        exactEndDate   |-> config.exactEndDate,
                        specificDates  |-> config.specificDates])
       IN  /\ pc' = IF dates.ok THEN "returned" ELSE "failed"
           /\ result' = dates.value
           /\ error' = dates.error
    /\ UNCHANGED batch
    /\ UNCHANGED ui
    /\ UNCHANGED <<tz, config, call, args, units, remaining, i, validDates,
                   billData>>

\* Months counted from year 0, to measure the span of a month range.
MonthIndex(month, year) == year * 12 + month - 1

\* Month ranges of at most MaxSpanMonths months, and those that end one month
\* before they start.
DateMonthRanges ==
    {r \in (1..12) \X Years \X (1..12) \X Years :
        MonthIndex(r[3], r[4]) - MonthIndex(r[1], r[2]) \in -1..(MaxSpanMonths - 1)}

\* "x": no digit in it.
NoDateString == << <<Letter>> >>

\* "1-03-2024": the first of March 2024 with a one-digit day.
ShortFirstOfMarch == <<<<1>>, <<0, 3>>, <<2, 0, 2, 4>>>>

\* Days around the end of February and the end of March 2024.
ExactDateInputsWide ==
    {Undefined, Some(EmptyString), Some(NoDateString),
     Some(DateString(30, 2, 2024)), Some(DateString(28, 2, 2024)),
     Some(DateString(1, 3, 2024)), Some(ShortFirstOfMarch),
     Some(DateString(30, 3, 2024)), Some(DateString(1, 4, 2024))}

\* Nothing, Tuesday, the weekend, all but Monday, every day.
ExcludeWeekdaySetsWide == {{}, {2}, {0, 6}, {0, 2, 3, 4, 5, 6}, 0..6}

DateConfigs ==
    {ds @@ [excludeWeekdays |-> ex] :
        ds \in DateSettings(DateMonthRanges, ExactDateInputsWide),
        ex \in ExcludeWeekdaySetsWide}

InitDates ==
    /\ tz \in TimeZones
    /\ config \in DateConfigs
    /\ call = "generateDateRange"
    /\ pc = "generateDateRange"
    /\ args = <<>>
    /\ units = <<>>
    /\ remaining = 0
    /\ i = 0
    /\ validDates = <<>>
    /\ result = <<>>
    /\ error = ""
    /\ billData = <<>>
    /\ NoBatch
    /\ NoUi

NextDates == GenerateDateRange

SpecDates == InitDates /\ [][NextDates]_vars

----------------------------------------------------------------------------
(* SpecAssign: distributeInvoicesAcrossDates called on its own *)

DistributeInvoicesAcrossDates ==
    /\ pc = "distributeInvoicesAcrossDates"
    /\ LET dates == distributeInvoicesAcrossDates(args.numBills, args.availableDates)
       IN  /\ pc' = IF dates.ok THEN "returned" ELSE "failed"
           /\ result' = dates.value
           /\ error' = dates.error
    /\ UNCHANGED batch
    /\ UNCHANGED ui
    /\ UNCHANGED <<tz, config, call, args, units, remaining, i, validDates,
                   billData>>

\* The first n days of May 2025, ascending, as generateDateRange returns them.
FirstDaysOfMay(n) == [k \in 1..n |-> DateString(k, 5, 2025)]

InitAssign ==
    /\ tz = "UTC"
    /\ config = NoConfig
    /\ call = "distributeInvoicesAcrossDates"
    /\ pc = "distributeInvoicesAcrossDates"
    /\ args \in {[numBills |-> n, availableDates |-> FirstDaysOfMay(d)] :
                    n \in 0..MaxAssignBills, d \in 0..MaxAssignDates}
    /\ units = <<>>
    /\ remaining = 0
    /\ i = 0
    /\ validDates = <<>>
    /\ result = <<>>
    /\ error = ""
    /\ billData = <<>>
    /\ NoBatch
    /\ NoUi

NextAssign == DistributeInvoicesAcrossDates

SpecAssign == InitAssign /\ [][NextAssign]_vars

----------------------------------------------------------------------------
(* numberToWords and generateAmountInWords.  A string is the sequence of   *)
(* its pieces: words, single spaces " ", hyphens "-" and brackets; the     *)
(* empty string is the empty sequence and no piece is empty.               *)

ones == <<"", "one", "two", "three", "four", "five", "six", "seven", "eight",
          "nine">>
teens == <<"ten", "eleven", "twelve", "thirteen", "fourteen", "fifteen",
           "sixteen", "seventeen", "eighteen", "nineteen">>
tens == <<"", "", "twenty", "thirty", "forty", "fifty", "sixty", "seventy",
          "eighty", "ninety">>
thousands == <<"", "thousand", "million", "billion">>

\* A string literal or array element as a string of the model.
Str(w) == IF w = "" THEN <<>> ELSE <<w>>

\* array[index], undefined (here "", which is falsy and prints like it never
\* does in the range of amounts) past the end of the array.
At(array, index) == IF index + 1 \in 1..Len(array) THEN array[index + 1] ELSE ""

\* String.prototype.trim
RECURSIVE TrimStart(_)
TrimStart(str) ==
    IF str # <<>> /\ Head(str) = " " THEN TrimStart(Tail(str)) ELSE str

RECURSIVE TrimEnd(_)
TrimEnd(str) ==
    IF str # <<>> /\ Last(str) = " " THEN TrimEnd(Front(str)) ELSE str

Trim(str) == TrimEnd(TrimStart(str))

\* convertHundreds after its first if: n is below 100 (or negative).
ConvertTens(n) ==
    IF n >= 20
    THEN Str(At(tens, n \div 10))
            \o (IF n % 10 # 0 THEN <<"-">> \o Str(At(ones, n % 10)) ELSE <<>>)
    ELSE IF n >= 10 THEN Str(At(teens, n - 10))
    ELSE IF n > 0 THEN Str(At(ones, n))
    ELSE <<>>

\* Mutant of convertHundreds: the result is returned without trim().
convertHundreds_untrimmed(n) ==
    IF n >= 100
    THEN Str(At(ones, n \div 100)) \o <<" ", "hundred", " ">> \o ConvertTens(n % 100)
    ELSE ConvertTens(n)

convertHundreds(n) ==
    Trim(IF n >= 100
         THEN Str(At(ones, n \div 100)) \o <<" ", "hundred", " ">>
                 \o ConvertTens(n % 100)
         ELSE ConvertTens(n))

\* while (num > 0) { if (num % 1000 !== 0) result = ... ; num = floor(num / 1000);
\* thousandCounter++ }
RECURSIVE WordsLoop(_, _, _)
WordsLoop(num, thousandCounter, str) ==
    IF num > 0
    THEN WordsLoop(num \div 1000, thousandCounter + 1,
            IF num % 1000 # 0
            THEN convertHundreds(num % 1000)
                    \o (IF At(thousands, thousandCounter) # ""
                        THEN <<" ", At(thousands, thousandCounter)>> ELSE <<>>)
                    \o <<" ">> \o str
            ELSE str)
    ELSE str

numberToWords(num) ==
    IF num = 0 THEN <<"zero">>
    ELSE IF num < 1000 THEN convertHundreds(num)
    ELSE Trim(WordsLoop(num, 0, <<>>))

\* The words a string can start with, and the same with charAt(0).toUpperCase().
LowerCase ==
    <<"zero", "one", "two", "three", "four", "five", "six", "seven", "eight",
      "nine", "ten", "eleven", "twelve", "thirteen", "fourteen", "fifteen",
      "sixteen", "seventeen", "eighteen", "nineteen", "twenty", "thirty",
      "forty", "fifty", "sixty", "seventy", "eighty", "ninety", "hundred",
      "thousand", "million", "billion">>
UpperCase ==
    <<"Zero", "One", "Two", "Three", "Four", "Five", "Six", "Seven", "Eight",
      "Nine", "Ten", "Eleven", "Twelve", "Thirteen", "Fourteen", "Fifteen",
      "Sixteen", "Seventeen", "Eighteen", "Nineteen", "Twenty", "Thirty",
      "Forty", "Fifty", "Sixty", "Seventy", "Eighty", "Ninety", "Hundred",
      "Thousand", "Million", "Billion">>

\* words.charAt(0).toUpperCase() + words.slice(1)
CapitalizeFirst(words) ==
    IF words = <<>> THEN <<>>
    ELSE IF \E k \in 1..Len(LowerCase) : LowerCase[k] = Head(words)
         THEN <<UpperCase[CHOOSE k \in 1..Len(LowerCase) : LowerCase[k] = Head(words)]>>
                 \o Tail(words)
         ELSE words

\* `( Rs. ${...} only )`
generateAmountInWords(amount) ==
    <<"(", " ", "Rs.", " ">> \o CapitalizeFirst(numberToWords(amount))
        \o <<" ", "only", " ", ")">>

----------------------------------------------------------------------------
(* Excel templates.  A template file is [size, readable, loads,            *)
(* hasWorksheet, cells, merges]: cells maps the addresses of the sheet to  *)
(* [value, style, formula].  A cell address is the sequence of its         *)
(* characters; a cell value is a sequence: <<>> for an empty cell, <<n>>   *)
(* for the number n, a date string or a string of words otherwise.  The    *)
(* workbook library is the environment: `faults` says which of its calls   *)
(* raise an exception in a run.                                            *)

Null == <<>>

\* The size limit of a template file: 50 MB
KiloByte == 1024
MaxTemplateSize == 50 * KiloByte * KiloByte

CellA1 == <<"A", "1">>
CellB2 == <<"B", "2">>
CellC3 == <<"C", "3">>
CellD4 == <<"D", "4">>
CellE5 == <<"E", "5">>

\* The cells of the sheet of the templates modelled.
SheetAddresses == {CellA1, CellB2, CellC3, CellD4, CellE5}

Letters == {"A", "B", "C", "D", "E", "a", "b", "c", "d", "e"}
UpperLetters == {"A", "B", "C", "D", "E"}
DigitChars == {"0", "1", "2", "3", "4", "5", "6", "7", "8", "9"}

\* String.prototype.toUpperCase
UpperChar(c) ==
    IF c = "a" THEN "A" ELSE IF c = "b" THEN "B" ELSE IF c = "c" THEN "C"
    ELSE IF c = "d" THEN "D" ELSE IF c = "e" THEN "E" ELSE c

toUpperCase(str) == [k \in 1..Len(str) |-> UpperChar(str[k])]

\* /^[A-Z]+\d+$/i.test(str)
AddressRegex(str) ==
    \E n \in 1..(Len(str) - 1) :
        /\ \A k \in 1..n : str[k] \in Letters
        /\ \A k \in (n + 1)..Len(str) : str[k] \in DigitChars

\* worksheet.getCell(address) returns a cell for column letters followed by
\* row digits, and raises for anything else.
GetCellRaises(address) ==
    ~ (AddressRegex(address) /\ \A k \in 1..Len(address) : address[k] \notin Letters \ UpperLetters)

\* The four cell mappings of generateSingleExcelBillBinary, in order.
CellMappings(bill, cfg) ==
    <<[address |-> cfg.invoiceCell, value |-> <<bill.billNo>>],
      [address |-> cfg.dateCell, value |-> bill.date],
      [address |-> cfg.unitsCell, value |-> <<bill.units>>],
      [address |-> cfg.amountWordsCell, value |-> generateAmountInWords(bill.amount)]>>

\* The body of the loop over the cell mappings: try { getCell; save the
\* properties; cell.value = mapping.value; restore the properties } catch
\* { console.warn }.  Assigning the value replaces a formula; the style is
\* assigned what it was.
UpdateCell(cells, mapping, raises) ==
    IF raises \/ GetCellRaises(mapping.address) THEN cells
    ELSE [cells EXCEPT ![mapping.address] =
            [value |-> mapping.value, style |-> @.style, formula |-> ""]]

\* for (const mapping of cellMappings) { ... }, from mapping k on
RECURSIVE UpdateCells(_, _, _, _)
UpdateCells(cells, mappings, k, cellFaults) ==
    IF k > Len(mappings) THEN cells
    ELSE UpdateCells(UpdateCell(cells, mappings[k], k \in cellFaults),
                     mappings, k + 1, cellFaults)

\* The workbook blob, or null.  faults.step names the call that raises, if
\* any; faults.cells the mappings whose update raises for another reason
\* than the address.
generateSingleExcelBillBinary(bill, cfg, template, faults) ==
    IF faults.step = "loadExcelJS" THEN Null
    ELSE IF ~ template.readable THEN Null
    ELSE IF ~ template.loads THEN Null
    ELSE IF ~ template.hasWorksheet THEN Null
    ELSE IF faults.step = "writeBuffer" THEN Null
    ELSE Some([cells  |-> UpdateCells(template.cells, CellMappings(bill, cfg),
                                      1, faults.cells),
               merges |-> template.merges])

\* String.prototype.trim on an address
TrimAddress(str) == Trim(str)

\* Mutant of CheckCell: the first problem found ends the checks.
CheckCell_failFast(cells, cellInfo, raises, acc) ==
    IF Len(acc.errors) > 0 THEN acc
    ELSE IF cellInfo.address = Undefined
               \/ ~ AddressRegex(TrimAddress(Get(cellInfo.address)))
    THEN [acc EXCEPT !.errors = @ \o <<[kind |-> "Invalid cell address format",
                                        name |-> cellInfo.name]>>]
    ELSE IF raises \/ GetCellRaises(toUpperCase(TrimAddress(Get(cellInfo.address))))
    THEN [acc EXCEPT !.errors = @ \o <<[kind |-> "Cannot access cell",
                                        name |-> cellInfo.name]>>]
    ELSE [acc EXCEPT !.preview = @ \o
            <<[name |-> cellInfo.name,
               address |-> toUpperCase(Get(cellInfo.address)),
               currentValue |-> cells[toUpperCase(TrimAddress(Get(cellInfo.address)))].value,
               formula |-> cells[toUpperCase(TrimAddress(Get(cellInfo.address)))].formula]>>]

\* The body of the loop over cellsToCheck: the errors and the preview after
\* it, acc being the errors and the preview before it.
CheckCell(cells, cellInfo, raises, acc) ==
    IF cellInfo.address = Undefined
          \/ ~ AddressRegex(TrimAddress(Get(cellInfo.address)))
    THEN [acc EXCEPT !.errors = @ \o <<[kind |-> "Invalid cell address format",
                                        name |-> cellInfo.name]>>]
    ELSE IF raises \/ GetCellRaises(toUpperCase(TrimAddress(Get(cellInfo.address))))
    THEN [acc EXCEPT !.errors = @ \o <<[kind |-> "Cannot access cell",
                                        name |-> cellInfo.name]>>]
    ELSE [acc EXCEPT !.preview = @ \o
            <<[name |-> cellInfo.name,
               address |-> toUpperCase(Get(cellInfo.address)),
               currentValue |-> cells[toUpperCase(TrimAddress(Get(cellInfo.address)))].value,
               formula |-> cells[toUpperCase(TrimAddress(Get(cellInfo.address)))].formula]>>]

\* for (const cellInfo of cellsToCheck) { ... }, from entry k on
RECURSIVE CheckCells(_, _, _, _, _)
CheckCells(cells, cellsToCheck, k, cellFaults, acc) ==
    IF k > Len(cellsToCheck) THEN acc
    ELSE CheckCells(cells, cellsToCheck, k + 1, cellFaults,
                    CheckCell(cells, cellsToCheck[k], k \in cellFaults, acc))

cellsToCheck(mapping) ==
    <<[name |-> "Invoice Cell", address |-> mapping.invoiceCell],
      [name |-> "Date Cell", address |-> mapping.dateCell],
      [name |-> "Units Cell", address |-> mapping.unitsCell],
      [name |-> "Amount Words Cell", address |-> mapping.amountWordsCell]>>

\* worksheet.actualRowCount: the rows that hold a value
ActualRowCount(cells) ==
    Cardinality({a[Len(a)] : a \in {b \in DOMAIN cells : cells[b].value # <<>>}})

\* What validateExcelTemplate returns once the worksheet was found.
ValidationResult(cells, checked) ==
    LET errors == checked.errors
                     \o (IF ActualRowCount(cells) = 0
                         THEN <<[kind |-> "The worksheet appears to be empty",
                                 name |-> ""]>>
                         ELSE <<>>)
    IN  [isValid |-> Len(errors) = 0,
         errors  |-> errors,
         preview |-> IF Len(errors) = 0 THEN Some(checked.preview) ELSE Undefined]

\* One error and nothing else.
ValidationFailure(kind) ==
    [isValid |-> FALSE, errors |-> <<[kind |-> kind, name |-> ""]>>,
     preview |-> Undefined]

\* The fields of cellMapping are optional here: the caller may leave one out.
validateExcelTemplate(template, mapping, faults) ==
    IF faults.step = "loadExcelJS" THEN ValidationFailure("Failed to read Excel file")
    ELSE IF template.size = 0 THEN ValidationFailure("The uploaded file is empty")
    ELSE IF template.size > MaxTemplateSize
    THEN ValidationFailure("File is too large")
    ELSE IF ~ template.readable \/ ~ template.loads
    THEN ValidationFailure("Failed to read Excel file")
    ELSE IF ~ template.hasWorksheet
    THEN ValidationFailure("No accessible worksheet found")
    ELSE ValidationResult(template.cells,
             CheckCells(template.cells, cellsToCheck(mapping), 1,
                        faults.cells, [errors |-> <<>>, preview |-> <<>>]))

----------------------------------------------------------------------------
(* SpecParse: parseDate called on its own, formatDate on what it returns *)

\* const date = BillGenerator.parseDate(dateString)
ParseDate ==
    /\ pc = "parseDate"
    /\ result' = parseDate(args.dateString)
    /\ pc' = "parsed"
    /\ UNCHANGED batch
    /\ UNCHANGED ui
    /\ UNCHANGED <<tz, config, call, args, units, remaining, i, validDates,
                   error, billData>>

\* BillGenerator.formatDate(date), for a date that parseDate returned
FormatDate ==
    /\ pc = "parsed"
    /\ IsDefined(result)
    /\ result' = formatDate(Get(result))
    /\ pc' = "formatted"
    /\ UNCHANGED batch
    /\ UNCHANGED ui
    /\ UNCHANGED <<tz, config, call, args, units, remaining, i, validDates,
                   error, billData>>

\* Day, month and year parts of the strings parsed: the ends of the months,
\* the neighbours of the valid ranges, leap and common years, and years below
\* 1000 and below 100 written with four digits.
DayParts == {<<0, 0>>, <<0, 1>>, <<2, 8>>, <<2, 9>>, <<3, 0>>, <<3, 1>>, <<3, 2>>}
MonthParts == {<<0, 0>>, <<0, 1>>, <<0, 2>>, <<0, 4>>, <<1, 2>>, <<1, 3>>}
YearParts == {<<2, 0, 2, 4>>, <<2, 0, 2, 5>>, <<1, 9, 0, 0>>, <<0, 9, 9, 9>>,
              <<0, 0, 9, 9>>}

\* Strings that are not DD-MM-YYYY: short parts, a letter, too few and too
\* many parts, the empty string.
OddDateStrings ==
    {ShortFirstOfMay, ShortFirstOfMarch, NoDateString, EmptyString,
     <<<<0, 1>>, <<0, 5>>>>,
     <<<<0, 1>>, <<Letter>>, <<2, 0, 2, 5>>>>,
     <<<<0, 1>>, <<0, 5>>, <<2, 0, 2, 5>>, <<9>>>>,
     <<<<>>, <<>>, <<2, 0, 2, 5>>>>}

ParseInputs ==
    {<<d, m, y>> : d \in DayParts, m \in MonthParts, y \in YearParts}
        \cup OddDateStrings

InitParse ==
    /\ tz \in TimeZones
    /\ config = NoConfig
    /\ call = "parseDate"
    /\ pc = "parseDate"
    /\ args \in {[dateString |-> x] : x \in ParseInputs}
    /\ units = <<>>
    /\ remaining = 0
    /\ i = 0
    /\ validDates = <<>>
    /\ result = <<>>
    /\ error = ""
    /\ billData = <<>>
    /\ NoBatch
    /\ NoUi

NextParse == ParseDate \/ FormatDate

SpecParse == InitParse /\ [][NextParse]_vars

----------------------------------------------------------------------------
(* SpecWords: generateAmountInWords called on its own *)

GenerateAmountInWords ==
    /\ pc = "generateAmountInWords"
    /\ result' = generateAmountInWords(args.amount)
    /\ pc' = "returned"
    /\ UNCHANGED batch
    /\ UNCHANGED ui
    /\ UNCHANGED <<tz, config, call, args, units, remaining, i, validDates,
                   error, billData>>

\* Values of a group of three digits: below ten, the teens, round and
\* compound tens, round hundreds and hundreds with each kind of remainder.
GroupValues ==
    {0, 1, 9, 10, 11, 19, 20, 21, 90, 99, 100, 101, 110, 111, 120, 121, 999}

\* Values of the millions group and of the billions group (amounts stay
\* below 2^31).
MillionsValues == {0, 1, 21, 100, 140}
BillionsValues == {0, 1, 2}

\* The amounts put into words, and the amount of a record with a negative
\* unit price.
Amounts ==
    {((b * 1000 + m) * 1000 + t) * 1000 + u :
        b \in BillionsValues, m \in MillionsValues,
        t \in GroupValues, u \in GroupValues}
    \cup {-5}

InitWords ==
    /\ tz = "UTC"
    /\ config = NoConfig
    /\ call = "generateAmountInWords"
    /\ pc = "generateAmountInWords"
    /\ args \in {[amount |-> n] : n \in Amounts}
    /\ units = <<>>
    /\ remaining = 0
    /\ i = 0
    /\ validDates = <<>>
    /\ result = <<>>
    /\ error = ""
    /\ billData = <<>>
    /\ NoBatch
    /\ NoUi

NextWords == GenerateAmountInWords

SpecWords == InitWords /\ [][NextWords]_vars

----------------------------------------------------------------------------
(* SpecExcel: generateSingleExcelBillBinary called on its own *)

GenerateSingleExcelBillBinary ==
    /\ pc = "generateSingleExcelBillBinary"
    /\ result' = generateSingleExcelBillBinary(args.bill, args.config,
                                               args.templateFile, args.faults)
    /\ pc' = "returned"
    /\ UNCHANGED batch
    /\ UNCHANGED ui
    /\ UNCHANGED <<tz, config, call, args, units, remaining, i, validDates,
                   error, billData>>

\* A template sheet: a styled empty cell, a label, a formula cell, an empty
\* cell, and a cell no mapping points to; one merged range.
TemplateCells ==
    (CellA1 :> [value |-> <<>>, style |-> "bold", formula |-> ""])
    @@ (CellB2 :> [value |-> <<"Date", ":">>, style |-> "", formula |-> ""])
    @@ (CellC3 :> [value |-> <<0>>, style |-> "number", formula |-> "SUM(C1:C2)"])
    @@ (CellD4 :> [value |-> <<>>, style |-> "", formula |-> ""])
    @@ (CellE5 :> [value |-> <<"Thank", "you">>, style |-> "italic", formula |-> ""])

GoodTemplate ==
    [size |-> 8 * KiloByte, readable |-> TRUE, loads |-> TRUE,
     hasWorksheet |-> TRUE, cells |-> TemplateCells, merges |-> <<"A1:B1">>]

\* The good template, and files that cannot be read, are no workbook, or
\* are a workbook without a worksheet.
TemplateFiles ==
    {GoodTemplate,
     [GoodTemplate EXCEPT !.readable = FALSE],
     [GoodTemplate EXCEPT !.loads = FALSE],
     [GoodTemplate EXCEPT !.hasWorksheet = FALSE]}

\* "1A": digits before letters
MalformedAddress == <<"1", "A">>

\* Cell mappings: four different cells, two mappings on one cell, a
\* malformed address and an empty one.
GenerationMappings ==
    [invoiceCell : {CellA1, MalformedAddress}, dateCell : {CellA1, CellB2},
     unitsCell : {CellC3, <<>>}, amountWordsCell : {CellD4, CellB2}]

\* Invoice 7 of 1 May 2025: 2 units, 800 rupees.
SampleBill == [billNo |-> 7, date |-> DateString(1, 5, 2025), units |-> 2,
               amount |-> 800]

GenerationFaults ==
    [step : {"none", "loadExcelJS", "writeBuffer"}, cells : SUBSET (1..4)]

InitExcel ==
    /\ tz = "UTC"
    /\ config = NoConfig
    /\ call = "generateSingleExcelBillBinary"
    /\ pc = "generateSingleExcelBillBinary"
    /\ args \in [bill : {SampleBill}, config : GenerationMappings,
                 templateFile : TemplateFiles, faults : GenerationFaults]
    /\ units = <<>>
    /\ remaining = 0
    /\ i = 0
    /\ validDates = <<>>
    /\ result = <<>>
    /\ error = ""
    /\ billData = <<>>
    /\ NoBatch
    /\ NoUi

NextExcel == GenerateSingleExcelBillBinary

SpecExcel == InitExcel /\ [][NextExcel]_vars

----------------------------------------------------------------------------
(* SpecValidate: validateExcelTemplate called on its own *)

\* const validation = await BillGenerator.validateExcelTemplate(file, mapping)
ValidateExcelTemplate ==
    /\ pc = "validateExcelTemplate"
    /\ result' = validateExcelTemplate(args.templateFile, args.cellMapping,
                                       args.faults)
    /\ pc' = "returned"
    /\ UNCHANGED batch
    /\ UNCHANGED ui
    /\ UNCHANGED <<tz, config, call, args, units, remaining, i, validDates,
                   error, billData>>

\* A worksheet whose cells all are empty: actualRowCount is 0.
EmptyCells ==
    [a \in SheetAddresses |-> [value |-> <<>>, style |-> "", formula |-> ""]]

\* The good template, one with an empty worksheet, an empty file, a file
\* above the size limit, a file that is no workbook and a workbook without
\* a worksheet.
ValidationTemplates ==
    {GoodTemplate,
     [GoodTemplate EXCEPT !.cells = EmptyCells],
     [GoodTemplate EXCEPT !.size = 0],
     [GoodTemplate EXCEPT !.size = MaxTemplateSize + 1],
     [GoodTemplate EXCEPT !.loads = FALSE],
     [GoodTemplate EXCEPT !.hasWorksheet = FALSE]}

\* Cell mappings: fields left out, "1A", "a1", "", " B2 ", "C", and
\* addresses of cells of the sheet.
ValidationMappings ==
    [invoiceCell : {Undefined, Some(CellA1), Some(MalformedAddress),
                    Some(<<"a", "1">>)},
     dateCell : {Some(CellB2), Some(<<>>), Some(<<" ", "B", "2", " ">>)},
     unitsCell : {Some(CellC3), Some(<<"C">>)},
     amountWordsCell : {Some(CellD4), Undefined}]

\* The library fails to load, or getCell raises for the cells named.
ValidationFaults ==
    [step : {"none", "loadExcelJS"}, cells : {{}, {1}, {3, 4}}]

InitValidate ==
    /\ tz = "UTC"
    /\ config = NoConfig
    /\ call = "validateExcelTemplate"
    /\ pc = "validateExcelTemplate"
    /\ args \in [templateFile : ValidationTemplates,
                 cellMapping : ValidationMappings, faults : ValidationFaults]
    /\ units = <<>>
    /\ remaining = 0
    /\ i = 0
    /\ validDates = <<>>
    /\ result = <<>>
    /\ error = ""
    /\ billData = <<>>
    /\ templateFile = Some(args.templateFile)
    /\ isGeneratingZip = FALSE
    /\ toasts = <<>>
    /\ zip = <<>>
    /\ inFlight = {}
    /\ outcomes = <<>>
    /\ NoUi

NextValidate == ValidateExcelTemplate

SpecValidate == InitValidate /\ [][NextValidate]_vars

----------------------------------------------------------------------------
(* SpecZip: downloadZip and generateExcelBillsAsZip, step by step.  pc:     *)
(*   "downloadZip"    the handler was entered, nothing done yet             *)
(*   "generateExcelBillsAsZip"  the function was entered                    *)
(*   "loop"           at the head of  for (const bill of billData),  bill   *)
(*                    being billData[i]                                     *)
(*   "awaiting"       at  await generateSingleExcelBillBinary(bill, ...)    *)
(*   "resolved"       the function has returned the archive `result`        *)
(*   "rejected"       the function has thrown `error`                       *)
(*   "done"           the handler has finished                              *)

\* A step of generateSingleExcelBillBinary raises an exception.
PopulationRaised(bill, cfg, template, faults) ==
    \/ faults.step # "none"
    \/ ~ template.readable
    \/ ~ template.loads
    \/ ~ template.hasWorksheet
    \/ \E k \in 1..4 :
          \/ k \in faults.cells
          \/ GetCellRaises(CellMappings(bill, cfg)[k].address)

\* zip.file(name, data): a file of the same name is replaced.
ZipFile(files, file) ==
    IF \E k \in 1..Len(files) : files[k] = file THEN files
    ELSE files \o <<file>>

InvoiceFile(bill) == [name |-> "Invoice_", billNo |-> bill.billNo, ext |-> ".xlsx"]
ErrorFile(bill) == [name |-> "Error_Invoice_", billNo |-> bill.billNo, ext |-> ".txt"]

\* Mutant of Awaited: the loop goes on without waiting for the promise.
Awaited_notWaiting(k, pending) == TRUE

\* await: the caller goes on when the promise of record k has settled.
Awaited(k, pending) == k \notin pending

\* downloadZip up to its call of generateExcelBillsAsZip.
DownloadZip ==
    /\ pc = "downloadZip"
    /\ IF templateFile = Null \/ Len(billData) = 0
       THEN /\ toasts' = toasts \o <<[variant |-> "warning",
                                      title |-> "Missing Requirements",
                                      count |-> 0]>>
            /\ pc' = "done"
            /\ UNCHANGED isGeneratingZip
       ELSE /\ isGeneratingZip' = TRUE
            /\ pc' = "generateExcelBillsAsZip"
            /\ UNCHANGED toasts
    /\ UNCHANGED <<templateFile, zip, inFlight, outcomes>>
    /\ UNCHANGED ui
    /\ UNCHANGED <<tz, config, call, args, units, remaining, i, validDates,
                   result, error, billData>>

\* generateExcelBillsAsZip before its loop: loadExcelJS, import("jszip"),
\* new JSZip(), templateFile.arrayBuffer().
GenerateExcelBillsAsZip ==
    /\ pc = "generateExcelBillsAsZip"
    /\ \E raises \in BOOLEAN :
          IF raises \/ ~ Get(templateFile).readable
          THEN /\ pc' = "rejected"
               /\ error' = "Failed to load"
               /\ UNCHANGED <<zip, i, outcomes>>
          ELSE /\ pc' = "loop"
               /\ zip' = <<>>
               /\ i' = 0
               /\ outcomes' = [k \in 1..Len(billData) |->
                                  [settled |-> FALSE, blob |-> Null, raised |-> FALSE]]
               /\ error' = error
    /\ UNCHANGED <<templateFile, isGeneratingZip, toasts, inFlight>>
    /\ UNCHANGED ui
    /\ UNCHANGED <<tz, config, call, args, units, remaining, validDates,
                   result, billData>>

\* The call generateSingleExcelBillBinary(bill, config, templateFile) of the
\* loop body: the population of billData[i] starts.
StartPopulation ==
    /\ pc = "loop"
    /\ i < Len(billData)
    /\ inFlight' = inFlight \cup {i}
    /\ pc' = "awaiting"
    /\ UNCHANGED <<templateFile, isGeneratingZip, toasts, zip, outcomes>>
    /\ UNCHANGED ui
    /\ UNCHANGED <<tz, config, call, args, units, remaining, i, validDates,
                   result, error, billData>>

\* The calls that may raise while one record of a batch is populated.
BatchFaults ==
    {[step |-> "none", cells |-> {}], [step |-> "writeBuffer", cells |-> {}],
     [step |-> "none", cells |-> {2}]}

\* The population of a record settles: generateSingleExcelBillBinary returns
\* a blob or null.
SettlePopulation ==
    /\ \E k \in inFlight, faults \in BatchFaults :
          /\ outcomes' = [outcomes EXCEPT ![k + 1] =
                [settled |-> TRUE,
                 blob    |-> generateSingleExcelBillBinary(
                                billData[k + 1], config, Get(templateFile), faults),
                 raised  |-> PopulationRaised(
                                billData[k + 1], config, Get(templateFile), faults)]]
          /\ inFlight' = inFlight \ {k}
    /\ UNCHANGED <<templateFile, isGeneratingZip, toasts, zip>>
    /\ UNCHANGED ui
    /\ UNCHANGED <<tz, config, call, pc, args, units, remaining, i, validDates,
                   result, error, billData>>

\* The loop body after the await: if (excelBlob) { buffer = await
\* excelBlob.arrayBuffer(); zip.file(Invoice) } else throw; catch { zip.file(Error) }
ResumeAfterPopulation ==
    /\ pc = "awaiting"
    /\ Awaited(i, inFlight)
    /\ zip' = IF outcomes[i + 1].blob # Null
              THEN ZipFile(zip, InvoiceFile(billData[i + 1]))
              ELSE ZipFile(zip, ErrorFile(billData[i + 1]))
    /\ i' = i + 1
    /\ pc' = "loop"
    /\ UNCHANGED <<templateFile, isGeneratingZip, toasts, inFlight, outcomes>>
    /\ UNCHANGED ui
    /\ UNCHANGED <<tz, config, call, args, units, remaining, validDates,
                   result, error, billData>>

\* return await zip.generateAsync(...)
GenerateAsync ==
    /\ pc = "loop"
    /\ ~ (i < Len(billData))
    /\ \E raises \in BOOLEAN :
          IF raises
          THEN /\ pc' = "rejected"
               /\ error' = "Failed to generate ZIP file"
               /\ UNCHANGED result
          ELSE /\ pc' = "resolved"
               /\ result' = zip
               /\ error' = error
    /\ UNCHANGED batch
    /\ UNCHANGED ui
    /\ UNCHANGED <<tz, config, call, args, units, remaining, i, validDates,
                   billData>>

\* downloadZip after the await: downloadZipFile and the success toast, or
\* the catch block; finally setIsGeneratingZip(false).
DownloadZipReturn ==
    /\ pc \in {"resolved", "rejected"}
    /\ toasts' = toasts \o
          <<IF pc = "resolved"
            THEN [variant |-> "success", title |-> "Download Complete",
                  count |-> Len(billData)]
            ELSE [variant |-> "destructive", title |-> "Download Error",
                  count |-> 0]>>
    /\ isGeneratingZip' = FALSE
    /\ pc' = "done"
    /\ UNCHANGED <<templateFile, zip, inFlight, outcomes>>
    /\ UNCHANGED ui
    /\ UNCHANGED <<tz, config, call, args, units, remaining, i, validDates,
                   result, error, billData>>

\* n records as createBillData returns them, from invoice 7 on.
BatchRecords(n) ==
    [k \in 1..n |-> [billNo |-> 6 + k, date |-> DateString(k, 5, 2025),
                     units |-> 2, amount |-> 800]]

FourCells ==
    [invoiceCell |-> CellA1, dateCell |-> CellB2, unitsCell |-> CellC3,
     amountWordsCell |-> CellD4]

InitZip ==
    /\ tz = "UTC"
    /\ config \in {FourCells, [FourCells EXCEPT !.invoiceCell = MalformedAddress]}
    /\ call = "downloadZip"
    /\ pc = "downloadZip"
    /\ args = <<>>
    /\ units = <<>>
    /\ remaining = 0
    /\ i = 0
    /\ validDates = <<>>
    /\ result = <<>>
    /\ error = ""
    /\ billData \in {BatchRecords(n) : n \in 0..MaxBatchRecords}
    /\ templateFile \in {Null, Some(GoodTemplate),
                         Some([GoodTemplate EXCEPT !.hasWorksheet = FALSE])}
    /\ isGeneratingZip = FALSE
    /\ toasts = <<>>
    /\ zip = <<>>
    /\ inFlight = {}
    /\ outcomes = <<>>
    /\ NoUi

NextZip ==
    \/ DownloadZip
    \/ GenerateExcelBillsAsZip
    \/ StartPopulation
    \/ SettlePopulation
    \/ ResumeAfterPopulation
    \/ GenerateAsync
    \/ DownloadZipReturn

SpecZip == InitZip /\ [][NextZip]_vars

----------------------------------------------------------------------------
(* loadExcelJS, step by step.  pc:                                          *)
(*   "loadExcelJS"  entered, nothing done yet                               *)
(*   "attempt"      at the head of the for loop                             *)
(*   "importing"    at  await import("exceljs")                             *)
(*   "caught"       in the catch block, lastError assigned                  *)
(*   "backoff"      at the await of the delay before the next attempt       *)
(*   "loaded"       has returned `result`                                   *)
(*   "loadFailed"   has thrown `error`                                      *)
(* What an import settles with is [rejected, message, default, namespace]:  *)
(* default and namespace are "undefined", "noWorkbook" (an object that      *)
(* exposes no Workbook) or "ExcelJS" (one that does).                       *)

maxRetries == 3

\* The delay before the import of the last attempt, in milliseconds.
LastResortDelay == 1000

\* The unit of the delay between attempts, in milliseconds.
BackoffUnit == 500

\* `ExcelJS loaded but Workbook not found (attempt ${attempt})`
WorkbookNotFound(k) ==
    IF k = 1 THEN "ExcelJS loaded but Workbook not found (attempt 1)"
    ELSE IF k = 2 THEN "ExcelJS loaded but Workbook not found (attempt 2)"
    ELSE "ExcelJS loaded but Workbook not found (attempt 3)"

\* What an attempt assigns to ExcelJS from the module its import resolved to.
ImportStrategy(k, module) ==
    IF k = 2
    THEN IF module.default # "undefined" THEN module.default ELSE module.namespace
    ELSE module.default

\* Mutant of LastAttempt: no attempt is taken to be the last.
LastAttempt_never(k) == FALSE

\* if (attempt === maxRetries) break
LastAttempt(k) == k = maxRetries

\* `Failed to load ExcelJS library after ${maxRetries} attempts. Last error: ...`
LoadFailure(message) ==
    "Failed to load ExcelJS library after 3 attempts. Last error: " \o message

\* const maxRetries = 3; let lastError = null; for (let attempt = 1; ...
LoadExcelJS ==
    /\ pc = "loadExcelJS"
    /\ attempt' = 1
    /\ lastError' = ""
    /\ pc' = "attempt"
    /\ UNCHANGED <<timers, imports, clock, loadPromise>>
    /\ UNCHANGED <<app, uploader>>
    /\ UNCHANGED batch
    /\ UNCHANGED <<tz, config, call, args, units, remaining, i, validDates,
                   result, error, billData>>

\* attempt <= maxRetries, and the body of the loop up to its import; after
\* the loop, the throw.
BeginAttempt ==
    /\ pc = "attempt"
    /\ IF attempt <= maxRetries
       THEN /\ timers' = IF attempt = 1 \/ attempt = 2 THEN timers
                         ELSE Append(timers, LastResortDelay)
            /\ pc' = "importing"
            /\ error' = error
       ELSE /\ pc' = "loadFailed"
            /\ error' = LoadFailure(lastError)
            /\ timers' = timers
    /\ UNCHANGED <<attempt, lastError, imports, clock, loadPromise>>
    /\ UNCHANGED <<app, uploader>>
    /\ UNCHANGED batch
    /\ UNCHANGED <<tz, config, call, args, units, remaining, i, validDates,
                   result, billData>>

\* What import("exceljs") may settle with.
ImportOutcomes ==
    [rejected : {TRUE}, message : {"Loading chunk failed", "Network error"},
     default : {"undefined"}, namespace : {"undefined"}]
    \cup
    [rejected : {FALSE}, message : {""},
     default : {"undefined", "noWorkbook", "ExcelJS"},
     namespace : {"noWorkbook", "ExcelJS"}]

\* The import settles; if (!ExcelJS || !ExcelJS.Workbook) throw; return
\* ExcelJS; catch (error) { lastError = ... }
ImportSettles ==
    /\ pc = "importing"
    /\ \E module \in ImportOutcomes :
          /\ imports' = Append(imports, module)
          /\ IF module.rejected
             THEN /\ lastError' = module.message
                  /\ pc' = "caught"
                  /\ result' = result
             ELSE IF ImportStrategy(attempt, module) # "ExcelJS"
             THEN /\ lastError' = WorkbookNotFound(attempt)
                  /\ pc' = "caught"
                  /\ result' = result
             ELSE /\ result' = ImportStrategy(attempt, module)
                  /\ pc' = "loaded"
                  /\ lastError' = lastError
    /\ UNCHANGED <<attempt, timers, clock, loadPromise>>
    /\ UNCHANGED <<app, uploader>>
    /\ UNCHANGED batch
    /\ UNCHANGED <<tz, config, call, args, units, remaining, i, validDates,
                   error, billData>>

\* The rest of the catch block: break, and the throw after the loop, or the
\* delay before the next attempt.
CatchImportError ==
    /\ pc = "caught"
    /\ IF LastAttempt(attempt)
       THEN /\ pc' = "loadFailed"
            /\ error' = LoadFailure(lastError)
            /\ timers' = timers
       ELSE /\ timers' = Append(timers, attempt * BackoffUnit)
            /\ pc' = "backoff"
            /\ error' = error
    /\ UNCHANGED <<attempt, lastError, imports, clock, loadPromise>>
    /\ UNCHANGED <<app, uploader>>
    /\ UNCHANGED batch
    /\ UNCHANGED <<tz, config, call, args, units, remaining, i, validDates,
                   result, billData>>

\* The delay has elapsed: attempt++
BackoffElapses ==
    /\ pc = "backoff"
    /\ attempt' = attempt + 1
    /\ pc' = "attempt"
    /\ UNCHANGED <<lastError, timers, imports, clock, loadPromise>>
    /\ UNCHANGED <<app, uploader>>
    /\ UNCHANGED batch
    /\ UNCHANGED <<tz, config, call, args, units, remaining, i, validDates,
                   result, error, billData>>

----------------------------------------------------------------------------
(* SpecLoad: loadExcelJS called on its own *)

InitLoad ==
    /\ tz = "UTC"
    /\ config = NoConfig
    /\ call = "loadExcelJS"
    /\ pc = "loadExcelJS"
    /\ args = <<>>
    /\ units = <<>>
    /\ remaining = 0
    /\ i = 0
    /\ validDates = <<>>
    /\ result = ""
    /\ error = ""
    /\ billData = <<>>
    /\ NoBatch
    /\ NoUi

NextLoad ==
    \/ LoadExcelJS
    \/ BeginAttempt
    \/ ImportSettles
    \/ CatchImportError
    \/ BackoffElapses

\* Every import settles and every delay elapses.
SpecLoad == InitLoad /\ [][NextLoad]_vars /\ WF_vars(NextLoad)

----------------------------------------------------------------------------
(* validateExcelTemplate, step by step.  pc, besides the positions of       *)
(* loadExcelJS:                                                             *)
(*   "racing"     at  await Promise.race([loadPromise, timeoutPromise])     *)
(*   "returned"   has resolved with `result`                                *)
(* clock counts the milliseconds since the race began.                      *)

\* setTimeout(() => reject(...), 30000)
LoadTimeout == 30000

\* The clock advances in steps of this many milliseconds.
TickLength == 10000

\* Mutant of TimedOut: the timer never fires.
TimedOut_never(t) == FALSE

\* The timer of timeoutPromise has expired.
TimedOut(t) == t >= LoadTimeout

\* loadExcelJS has thrown: the catch block of validateExcelTemplate.
ValidateLoadFailed ==
    /\ call = "validateExcelTemplate"
    /\ pc = "loadFailed"
    /\ result' = ValidationFailure("Failed to read Excel file")
    /\ pc' = "returned"
    /\ UNCHANGED ui
    /\ UNCHANGED batch
    /\ UNCHANGED <<tz, config, call, args, units, remaining, i, validDates,
                   error, billData>>

\* loadExcelJS has returned: the size tests, templateFile.arrayBuffer(), and
\* the start of the load and of the timer.
ValidateLoaded ==
    /\ call = "validateExcelTemplate"
    /\ pc = "loaded"
    /\ IF args.templateFile.size = 0
       THEN /\ result' = ValidationFailure("The uploaded file is empty")
            /\ pc' = "returned"
            /\ UNCHANGED <<clock, loadPromise>>
       ELSE IF args.templateFile.size > MaxTemplateSize
       THEN /\ result' = ValidationFailure("File is too large")
            /\ pc' = "returned"
            /\ UNCHANGED <<clock, loadPromise>>
       ELSE IF ~ args.templateFile.readable
       THEN /\ result' = ValidationFailure("Failed to read Excel file")
            /\ pc' = "returned"
            /\ UNCHANGED <<clock, loadPromise>>
       ELSE /\ loadPromise' = "pending"
            /\ clock' = 0
            /\ pc' = "racing"
            /\ result' = result
    /\ UNCHANGED <<attempt, lastError, timers, imports>>
    /\ UNCHANGED <<app, uploader>>
    /\ UNCHANGED batch
    /\ UNCHANGED <<tz, config, call, args, units, remaining, i, validDates,
                   error, billData>>

\* Time passes while the race is undecided.
Tick ==
    /\ pc = "racing"
    /\ clock < LoadTimeout
    /\ clock' = clock + TickLength
    /\ UNCHANGED <<attempt, lastError, timers, imports, loadPromise>>
    /\ UNCHANGED <<app, uploader>>
    /\ UNCHANGED batch
    /\ UNCHANGED <<tz, config, call, pc, args, units, remaining, i, validDates,
                   result, error, billData>>

\* workbook.xlsx.load(buffer) settles first: the worksheet is looked up and
\* the cells are checked, or the rejection is caught.
LoadSettles ==
    /\ pc = "racing"
    /\ loadPromise = "pending"
    /\ IF ~ args.templateFile.loads
       THEN /\ loadPromise' = "rejected"
            /\ result' = ValidationFailure("Failed to read Excel file")
       ELSE /\ loadPromise' = "resolved"
            /\ result' = IF ~ args.templateFile.hasWorksheet
                         THEN ValidationFailure("No accessible worksheet found")
                         ELSE ValidationResult(args.templateFile.cells,
                                  CheckCells(args.templateFile.cells,
                                             cellsToCheck(args.cellMapping), 1,
                                             args.faults.cells,
                                             [errors |-> <<>>, preview |-> <<>>]))
    /\ pc' = "returned"
    /\ UNCHANGED <<attempt, lastError, timers, imports, clock>>
    /\ UNCHANGED <<app, uploader>>
    /\ UNCHANGED batch
    /\ UNCHANGED <<tz, config, call, args, units, remaining, i, validDates,
                   error, billData>>

\* The timer fires first: the rejection of timeoutPromise is caught; the
\* load stays pending.
TimerFires ==
    /\ pc = "racing"
    /\ TimedOut(clock)
    /\ result' = ValidationFailure("Failed to read Excel file")
    /\ pc' = "returned"
    /\ UNCHANGED ui
    /\ UNCHANGED batch
    /\ UNCHANGED <<tz, config, call, args, units, remaining, i, validDates,
                   error, billData>>

----------------------------------------------------------------------------
(* SpecValidateAsync: validateExcelTemplate with its awaits *)

\* The good template, an empty file, a file above the size limit, a file
\* that cannot be read, a corrupt file and a workbook without a worksheet.
AsyncTemplates ==
    {GoodTemplate,
     [GoodTemplate EXCEPT !.size = 0],
     [GoodTemplate EXCEPT !.size = MaxTemplateSize + 1],
     [GoodTemplate EXCEPT !.readable = FALSE],
     [GoodTemplate EXCEPT !.loads = FALSE],
     [GoodTemplate EXCEPT !.hasWorksheet = FALSE]}

AsyncMappings ==
    [invoiceCell : {Some(CellA1), Some(MalformedAddress)},
     dateCell : {Some(CellB2)}, unitsCell : {Some(CellC3)},
     amountWordsCell : {Some(CellD4)}]

InitValidateAsync ==
    /\ tz = "UTC"
    /\ config = NoConfig
    /\ call = "validateExcelTemplate"
    /\ pc = "loadExcelJS"
    /\ args \in [templateFile : AsyncTemplates, cellMapping : AsyncMappings,
                 faults : [step : {"none"}, cells : {{}}]]
    /\ units = <<>>
    /\ remaining = 0
    /\ i = 0
    /\ validDates = <<>>
    /\ result = ""
    /\ error = ""
    /\ billData = <<>>
    /\ NoBatch
    /\ NoUi

\* The steps that are bound to happen: those of loadExcelJS, the passing of
\* time and the firing of the timer.
ValidateProgress ==
    \/ NextLoad
    \/ ValidateLoadFailed
    \/ ValidateLoaded
    \/ Tick
    \/ TimerFires

NextValidateAsync == ValidateProgress \/ LoadSettles

\* The load of the workbook need not ever settle.
SpecValidateAsync ==
    InitValidateAsync /\ [][NextValidateAsync]_vars /\ WF_vars(ValidateProgress)

----------------------------------------------------------------------------
(* The handlers of BillGeneratorApp.  A handler without an await runs to    *)
(* its end before the next event is handled: it is one action, taken at pc  *)
(* = "idle" (no handler is running), and it leaves its name in `call`.      *)
(* generateBills has no await either; it is taken through the steps above,  *)
(* during which no other handler starts.  `error` is the error that the     *)
(* handler run last has surfaced: a handler starts with none.               *)

MaxPresets == 1     \* savedPresets.length

\* The "Generate Bills" button: generateBills is invoked.
ClickGenerate ==
    /\ pc = "idle"
    /\ call' = "generateBills"
    /\ pc' = "generateBills"
    /\ error' = ""
    /\ UNCHANGED ui
    /\ UNCHANGED batch
    /\ UNCHANGED <<tz, config, args, units, remaining, i, validDates, result,
                   billData>>

\* generateBills has run to its end.
GenerateBillsReturn ==
    /\ call = "generateBills"
    /\ pc \in {"done", "failed"}
    /\ pc' = "idle"
    /\ UNCHANGED ui
    /\ UNCHANGED batch
    /\ UNCHANGED <<tz, config, call, args, units, remaining, i, validDates,
                   result, error, billData>>

\* onTabChange(tab)
TabChange ==
    /\ pc = "idle"
    /\ \E tab \in {"config", "presets"} : activeTab' = tab
    /\ call' = "setActiveTab"
    /\ UNCHANGED <<isGenerating, appOther>>
    /\ UNCHANGED <<loader, uploader>>
    /\ UNCHANGED batch
    /\ error' = ""
    /\ UNCHANGED <<tz, config, pc, args, units, remaining, i, validDates,
                   result, billData>>

\* The fields the user edits and the values typed: the unit price, and the
\* first invoice number.
ConfigEdits ==
    {<<"unitPrice", 400>>, <<"unitPrice", 500>>,
     <<"invoiceStart", 0>>, <<"invoiceStart", 1>>}

\* handleConfigChange(field, value)
HandleConfigChange ==
    /\ pc = "idle"
    /\ \E edit \in ConfigEdits :
          config' = [config EXCEPT ![edit[1]] = edit[2]]
    /\ call' = "handleConfigChange"
    /\ error' = ""
    /\ UNCHANGED ui
    /\ UNCHANGED batch
    /\ UNCHANGED <<tz, pc, args, units, remaining, i, validDates, result,
                   billData>>

\* Mutant of ModeField: config never gets the field.
ModeField_never(mode, ofMode, value) == Undefined

\* mode === ofMode ? value : undefined
ModeField(mode, ofMode, value) == IF mode = ofMode THEN Some(value) ELSE Undefined

\* handleDateModeChange(mode)
HandleDateModeChange ==
    /\ pc = "idle"
    /\ \E mode \in {"month-range", "exact-range", "specific-dates"} :
          /\ dateMode' = mode
          /\ config' = [config EXCEPT
                          !.dateMode = Some(mode),
                          !.exactStartDate = ModeField(mode, "exact-range", exactStartDate),
                          !.exactEndDate = ModeField(mode, "exact-range", exactEndDate),
                          !.specificDates = ModeField(mode, "specific-dates", specificDates)]
    /\ call' = "handleDateModeChange"
    /\ error' = ""
    /\ UNCHANGED <<exactStartDate, exactEndDate, specificDates>>
    /\ UNCHANGED <<activeTab, isGenerating, isGeneratingPDF, savedPresets, exports>>
    /\ UNCHANGED <<loader, uploader>>
    /\ UNCHANGED batch
    /\ UNCHANGED <<tz, pc, args, units, remaining, i, validDates, result,
                   billData>>

\* What the date pickers of the exact range hand over: a date, or "".
ExactDateValues == {DateString(1, 5, 2025), EmptyString}

\* handleExactDateChange(field, value)
HandleExactDateChange ==
    /\ pc = "idle"
    /\ \E field \in {"start", "end"}, value \in ExactDateValues :
          IF field = "start"
          THEN /\ exactStartDate' = value
               /\ config' = [config EXCEPT !.exactStartDate = Some(value)]
               /\ UNCHANGED exactEndDate
          ELSE /\ exactEndDate' = value
               /\ config' = [config EXCEPT !.exactEndDate = Some(value)]
               /\ UNCHANGED exactStartDate
    /\ call' = "handleExactDateChange"
    /\ UNCHANGED <<dateMode, specificDates>>
    /\ UNCHANGED <<activeTab, isGenerating, isGeneratingPDF, savedPresets, exports>>
    /\ UNCHANGED <<loader, uploader>>
    /\ UNCHANGED batch
    /\ error' = ""
    /\ UNCHANGED <<tz, pc, args, units, remaining, i, validDates, result,
                   billData>>

\* What the "new date" field holds when "Add" is pressed.
NewDateValues == {DateString(2, 5, 2025), DateString(31, 2, 2025)}

\* addSpecificDate(): the early returns leave the state alone.
AddSpecificDate ==
    /\ pc = "idle"
    /\ \E newDate \in NewDateValues :
          LET updatedDates == addSpecificDate(specificDates, newDate)
          IN  IF updatedDates = specificDates
              THEN UNCHANGED <<specificDates, config>>
              ELSE /\ specificDates' = updatedDates
                   /\ config' = [config EXCEPT !.specificDates = Some(updatedDates)]
    /\ call' = "addSpecificDate"
    /\ UNCHANGED <<dateMode, exactStartDate, exactEndDate>>
    /\ UNCHANGED <<activeTab, isGenerating, isGeneratingPDF, savedPresets, exports>>
    /\ UNCHANGED <<loader, uploader>>
    /\ UNCHANGED batch
    /\ error' = ""
    /\ UNCHANGED <<tz, pc, args, units, remaining, i, validDates, result,
                   billData>>

\* removeSpecificDate(dateToRemove), for a date of the list shown
RemoveSpecificDate ==
    /\ pc = "idle"
    /\ \E k \in 1..Len(specificDates) :
          LET updatedDates ==
                 SelectSeq(specificDates, LAMBDA date : date # specificDates[k])
          IN  /\ specificDates' = updatedDates
              /\ config' = [config EXCEPT !.specificDates = Some(updatedDates)]
    /\ call' = "removeSpecificDate"
    /\ UNCHANGED <<dateMode, exactStartDate, exactEndDate>>
    /\ UNCHANGED <<activeTab, isGenerating, isGeneratingPDF, savedPresets, exports>>
    /\ UNCHANGED <<loader, uploader>>
    /\ UNCHANGED batch
    /\ error' = ""
    /\ UNCHANGED <<tz, pc, args, units, remaining, i, validDates, result,
                   billData>>

\* What the preset name field holds: "", " " and " May ".
PresetNames == {<<>>, <<" ">>, <<" ", "May", " ">>}

\* Mutant of BlankName: only the empty name is refused.
BlankName_emptyOnly(name) == name = <<>>

\* !newPresetName.trim()
BlankName(name) == Trim(name) = <<>>

\* savePreset(), with newPresetName in args
SavePreset ==
    /\ pc = "idle"
    /\ Len(savedPresets) < MaxPresets
    /\ \E newPresetName \in PresetNames :
          /\ args' = [newPresetName |-> newPresetName]
          /\ savedPresets' =
                IF BlankName(newPresetName) THEN savedPresets
                ELSE Append(savedPresets,
                            [name |-> Trim(newPresetName),
                             config |-> config,
                             excludedWeekdays |-> config.excludeWeekdays])
    /\ call' = "savePreset"
    /\ UNCHANGED <<activeTab, isGenerating, isGeneratingPDF, dateState, exports>>
    /\ UNCHANGED <<loader, uploader>>
    /\ UNCHANGED batch
    /\ error' = ""
    /\ UNCHANGED <<tz, config, pc, units, remaining, i, validDates, result,
                   billData>>

\* loadPreset(preset), preset being savedPresets[index] (index in args)
LoadPreset ==
    /\ pc = "idle"
    /\ \E k \in 1..Len(savedPresets) :
          LET preset == savedPresets[k]
          IN  /\ args' = [index |-> k]
              /\ config' = preset.config
              /\ dateMode' = Get(DateModeOrDefault(preset.config))
              /\ specificDates' = IF IsDefined(preset.config.specificDates)
                                  THEN Get(preset.config.specificDates) ELSE <<>>
              /\ exactStartDate' = IF Truthy(preset.config.exactStartDate)
                                   THEN Get(preset.config.exactStartDate)
                                   ELSE EmptyString
              /\ exactEndDate' = IF Truthy(preset.config.exactEndDate)
                                 THEN Get(preset.config.exactEndDate)
                                 ELSE EmptyString
    /\ billData' = <<>>
    /\ error' = ""
    /\ activeTab' = "config"
    /\ call' = "loadPreset"
    /\ UNCHANGED <<isGenerating, isGeneratingPDF, savedPresets, exports>>
    /\ UNCHANGED <<loader, uploader>>
    /\ UNCHANGED batch
    /\ UNCHANGED <<tz, pc, units, remaining, i, validDates, result>>

\* deletePreset(index)
DeletePreset ==
    /\ pc = "idle"
    /\ \E k \in 1..Len(savedPresets) :
          /\ args' = [index |-> k]
          /\ savedPresets' = [j \in 1..(Len(savedPresets) - 1) |->
                                 IF j < k THEN savedPresets[j]
                                 ELSE savedPresets[j + 1]]
    /\ call' = "deletePreset"
    /\ UNCHANGED <<activeTab, isGenerating, isGeneratingPDF, dateState, exports>>
    /\ UNCHANGED <<loader, uploader>>
    /\ UNCHANGED batch
    /\ error' = ""
    /\ UNCHANGED <<tz, config, pc, units, remaining, i, validDates, result,
                   billData>>

----------------------------------------------------------------------------
(* SpecApp: config edits, generation and presets *)

\* The config the app starts with, scaled down: two invoices and three units
\* on the Saturdays of May 2025.
AppConfig ==
    [invoiceStart |-> 1, invoiceEnd |-> 2, totalUnitsToSell |-> 3,
     minUnitsPerBill |-> 1, maxUnitsPerBill |-> 2, startMonth |-> 5,
     startYear |-> 2025, endMonth |-> 5, endYear |-> 2025,
     excludeWeekdays |-> {0, 1, 2, 3, 4, 5}, unitPrice |-> 400,
     dateMode |-> Some("month-range"), allowMultipleInvoicesPerDay |-> TRUE,
     exactStartDate |-> Undefined, exactEndDate |-> Undefined,
     specificDates |-> Undefined]

InitApp ==
    /\ tz = "UTC"
    /\ config = AppConfig
    /\ call = "render"
    /\ pc = "idle"
    /\ args = <<>>
    /\ units = <<>>
    /\ remaining = 0
    /\ i = 0
    /\ validDates = <<>>
    /\ result = <<>>
    /\ error = ""
    /\ billData = <<>>
    /\ NoBatch
    /\ NoUi

NextApp ==
    \/ ClickGenerate
    \/ GenerateBills
    \/ CreateBillData
    \/ DistributionEnter
    \/ AllocateStep
    \/ ShuffleStep
    \/ DistributionReturn
    \/ CreateBillDataReturn
    \/ GenerateBillsInstall
    \/ GenerateBillsReturn
    \/ TabChange
    \/ HandleConfigChange
    \/ HandleDateModeChange
    \/ SavePreset
    \/ LoadPreset
    \/ DeletePreset

SpecApp == InitApp /\ [][NextApp]_vars

----------------------------------------------------------------------------
(* SpecDatesUi: the date settings and presets *)

NextDatesUi ==
    \/ HandleDateModeChange
    \/ HandleExactDateChange
    \/ AddSpecificDate
    \/ RemoveSpecificDate
    \/ SavePreset
    \/ LoadPreset
    \/ DeletePreset

SpecDatesUi == InitApp /\ [][NextDatesUi]_vars

----------------------------------------------------------------------------
(* SpecExport: the download buttons of PreviewTab.  downloadZip and         *)
(* downloadPDF are async: a call runs up to its await, and the rest of it   *)
(* runs when the batch has settled.  In between the app handles other       *)
(* events.  exports counts the calls that are at their await.               *)

MaxExports == 3     \* calls of one kind at their await

\* PreviewTab renders the download buttons: the tab is open and hasData.
DownloadButtonsShown == activeTab = "preview" /\ Len(billData) > 0

\* "Download ZIP" is clicked: downloadZip up to its await.
ClickDownloadZip ==
    /\ pc = "idle"
    /\ DownloadButtonsShown
    /\ exports.zip < MaxExports
    /\ call' = "downloadZip"
    /\ IF templateFile = Null \/ Len(billData) = 0
       THEN /\ error' = "Missing Requirements"
            /\ UNCHANGED <<isGeneratingZip, exports>>
       ELSE /\ isGeneratingZip' = TRUE
            /\ exports' = [exports EXCEPT !.zip = @ + 1]
            /\ error' = ""
    /\ UNCHANGED <<templateFile, toasts, zip, inFlight, outcomes>>
    /\ UNCHANGED <<activeTab, isGenerating, isGeneratingPDF, dateState, savedPresets>>
    /\ UNCHANGED <<loader, uploader>>
    /\ UNCHANGED <<tz, config, pc, args, units, remaining, i, validDates,
                   result, billData>>

\* generateExcelBillsAsZip has settled: downloadZip after its await, with its
\* catch and its finally.
DownloadZipSettles ==
    /\ pc = "idle"
    /\ exports.zip > 0
    /\ call' = "downloadZip settled"
    /\ \E rejected \in BOOLEAN :
          error' = IF rejected THEN "Download Error" ELSE ""
    /\ isGeneratingZip' = FALSE
    /\ exports' = [exports EXCEPT !.zip = @ - 1]
    /\ UNCHANGED <<templateFile, toasts, zip, inFlight, outcomes>>
    /\ UNCHANGED <<activeTab, isGenerating, isGeneratingPDF, dateState, savedPresets>>
    /\ UNCHANGED <<loader, uploader>>
    /\ UNCHANGED <<tz, config, pc, args, units, remaining, i, validDates,
                   result, billData>>

\* "Download PDF" is clicked: downloadPDF up to its await.
ClickDownloadPDF ==
    /\ pc = "idle"
    /\ DownloadButtonsShown
    /\ exports.pdf < MaxExports
    /\ call' = "downloadPDF"
    /\ IF Len(billData) = 0
       THEN /\ error' = "No Bills Generated"
            /\ UNCHANGED <<isGeneratingPDF, exports>>
       ELSE IF templateFile = Null
       THEN /\ error' = "Template Required"
            /\ UNCHANGED <<isGeneratingPDF, exports>>
       ELSE /\ isGeneratingPDF' = TRUE
            /\ exports' = [exports EXCEPT !.pdf = @ + 1]
            /\ error' = ""
    /\ UNCHANGED batch
    /\ UNCHANGED <<activeTab, isGenerating, dateState, savedPresets>>
    /\ UNCHANGED <<loader, uploader>>
    /\ UNCHANGED <<tz, config, pc, args, units, remaining, i, validDates,
                   result, billData>>

\* generatePDFBillsFromExcel has settled: downloadPDF after its await.
DownloadPDFSettles ==
    /\ pc = "idle"
    /\ exports.pdf > 0
    /\ call' = "downloadPDF settled"
    /\ \E rejected \in BOOLEAN :
          error' = IF rejected THEN "PDF Generation Error" ELSE ""
    /\ isGeneratingPDF' = FALSE
    /\ exports' = [exports EXCEPT !.pdf = @ - 1]
    /\ UNCHANGED batch
    /\ UNCHANGED <<activeTab, isGenerating, dateState, savedPresets>>
    /\ UNCHANGED <<loader, uploader>>
    /\ UNCHANGED <<tz, config, pc, args, units, remaining, i, validDates,
                   result, billData>>

\* The preview tab is open with bills generated; a template was uploaded or
\* not.
InitExport ==
    /\ tz = "UTC"
    /\ config = FourCells
    /\ call = "render"
    /\ pc = "idle"
    /\ args = <<>>
    /\ units = <<>>
    /\ remaining = 0
    /\ i = 0
    /\ validDates = <<>>
    /\ result = <<>>
    /\ error = ""
    /\ billData \in {BatchRecords(1), BatchRecords(2)}
    /\ templateFile \in {Null, Some(GoodTemplate)}
    /\ isGeneratingZip = FALSE
    /\ toasts = <<>>
    /\ zip = <<>>
    /\ inFlight = {}
    /\ outcomes = <<>>
    /\ attempt = 0
    /\ lastError = ""
    /\ timers = <<>>
    /\ imports = <<>>
    /\ clock = 0
    /\ loadPromise = "none"
    /\ activeTab = "preview"
    /\ isGenerating = FALSE
    /\ isGeneratingPDF = FALSE
    /\ dateMode = "month-range"
    /\ exactStartDate = EmptyString
    /\ exactEndDate = EmptyString
    /\ specificDates = <<>>
    /\ savedPresets = <<>>
    /\ exports = [zip |-> 0, pdf |-> 0]
    /\ selectedFile = <<>>
    /\ validationResult = <<>>
    /\ cellMapping = <<>>
    /\ isValidating = FALSE
    /\ validations = {}

NextExport ==
    \/ ClickDownloadZip
    \/ DownloadZipSettles
    \/ ClickDownloadPDF
    \/ DownloadPDFSettles

SpecExport == InitExport /\ [][NextExport]_vars

----------------------------------------------------------------------------
(* SpecUpload: TemplateUploader on the template tab.  validateTemplate is   *)
(* async: it runs up to its await with the selectedFile and the cellMapping *)
(* of the render it was created in, and the rest of it runs, with the same  *)
(* two values, when validateExcelTemplate has resolved.  validations holds  *)
(* the calls at their await; a shown result records in `of` the call that   *)
(* produced it.                                                             *)

\* The mapping of the props as validateExcelTemplate takes it.
MappingGiven(mapping) == [f \in DOMAIN mapping |-> Some(mapping[f])]

\* handleFileSelect(event), for a file that passes the checks of name and size
HandleFileSelect ==
    /\ pc = "idle"
    /\ activeTab = "template"
    /\ \E file \in {GoodTemplate, [GoodTemplate EXCEPT !.hasWorksheet = FALSE]} :
          selectedFile' = Some(file)
    /\ validationResult' = Null
    /\ call' = "handleFileSelect"
    /\ UNCHANGED <<cellMapping, isValidating, validations>>
    /\ UNCHANGED <<loader, app>>
    /\ UNCHANGED batch
    /\ UNCHANGED <<tz, config, pc, args, units, remaining, i, validDates,
                   result, error, billData>>

\* "Validate Template" is clicked (the button is disabled while isValidating):
\* validateTemplate up to its await.
ValidateTemplate ==
    /\ pc = "idle"
    /\ activeTab = "template"
    /\ selectedFile # Null
    /\ ~ isValidating
    /\ isValidating' = TRUE
    /\ validations' = validations \cup {[file |-> selectedFile,
                                         mapping |-> cellMapping]}
    /\ call' = "validateTemplate"
    /\ UNCHANGED <<selectedFile, validationResult, cellMapping>>
    /\ UNCHANGED <<loader, app>>
    /\ UNCHANGED batch
    /\ UNCHANGED <<tz, config, pc, args, units, remaining, i, validDates,
                   result, error, billData>>

\* validateExcelTemplate has resolved: validateTemplate after its await,
\* onTemplateUpload = handleTemplateUpload of the app included, and finally.
ValidateTemplateSettles ==
    /\ pc = "idle"
    /\ activeTab = "template"
    /\ \E validation \in validations :
          LET outcome == validateExcelTemplate(Get(validation.file),
                                               MappingGiven(validation.mapping),
                                               [step |-> "none", cells |-> {}])
          IN  /\ validations' = validations \ {validation}
              /\ validationResult' = Some([isValid |-> outcome.isValid,
                                           errors |-> outcome.errors,
                                           of |-> validation])
              /\ IF outcome.isValid
                 THEN /\ templateFile' = validation.file
                      /\ cellMapping' = validation.mapping
                      /\ config' = [config EXCEPT
                            !.invoiceCell = validation.mapping.invoiceCell,
                            !.dateCell = validation.mapping.dateCell,
                            !.unitsCell = validation.mapping.unitsCell,
                            !.amountWordsCell = validation.mapping.amountWordsCell]
                      /\ call' = "handleTemplateUpload"
                 ELSE /\ UNCHANGED <<templateFile, cellMapping, config>>
                      /\ call' = "validateTemplate"
    /\ isValidating' = FALSE
    /\ UNCHANGED selectedFile
    /\ UNCHANGED <<isGeneratingZip, toasts, zip, inFlight, outcomes>>
    /\ UNCHANGED <<loader, app>>
    /\ UNCHANGED <<tz, pc, args, units, remaining, i, validDates, result,
                   error, billData>>

\* What is typed into the invoice cell field: "E5", "A1" and "1A".
MappingEdits ==
    {<<"invoiceCell", CellE5>>, <<"invoiceCell", CellA1>>,
     <<"invoiceCell", MalformedAddress>>}

\* handleCellMappingChange(field, value); onCellMappingChange is the
\* setCellMapping of the app.
HandleCellMappingChange ==
    /\ pc = "idle"
    /\ activeTab = "template"
    /\ \E edit \in MappingEdits :
          cellMapping' = [cellMapping EXCEPT ![edit[1]] = edit[2]]
    /\ validationResult' = Null
    /\ call' = "handleCellMappingChange"
    /\ UNCHANGED <<selectedFile, isValidating, validations>>
    /\ UNCHANGED <<loader, app>>
    /\ UNCHANGED batch
    /\ UNCHANGED <<tz, config, pc, args, units, remaining, i, validDates,
                   result, error, billData>>

\* clearFile(), of the button shown with a selected file
ClearFile ==
    /\ pc = "idle"
    /\ activeTab = "template"
    /\ selectedFile # Null
    /\ selectedFile' = Null
    /\ validationResult' = Null
    /\ call' = "clearFile"
    /\ UNCHANGED <<cellMapping, isValidating, validations>>
    /\ UNCHANGED <<loader, app>>
    /\ UNCHANGED batch
    /\ UNCHANGED <<tz, config, pc, args, units, remaining, i, validDates,
                   result, error, billData>>

\* The template tab as it is first opened.
InitUpload ==
    /\ tz = "UTC"
    /\ config = FourCells
    /\ call = "render"
    /\ pc = "idle"
    /\ args = <<>>
    /\ units = <<>>
    /\ remaining = 0
    /\ i = 0
    /\ validDates = <<>>
    /\ result = <<>>
    /\ error = ""
    /\ billData = <<>>
    /\ templateFile = Null
    /\ isGeneratingZip = FALSE
    /\ toasts = <<>>
    /\ zip = <<>>
    /\ inFlight = {}
    /\ outcomes = <<>>
    /\ attempt = 0
    /\ lastError = ""
    /\ timers = <<>>
    /\ imports = <<>>
    /\ clock = 0
    /\ loadPromise = "none"
    /\ activeTab = "template"
    /\ isGenerating = FALSE
    /\ isGeneratingPDF = FALSE
    /\ dateMode = "month-range"
    /\ exactStartDate = EmptyString
    /\ exactEndDate = EmptyString
    /\ specificDates = <<>>
    /\ savedPresets = <<>>
    /\ exports = [zip |-> 0, pdf |-> 0]
    /\ selectedFile = Null
    /\ validationResult = Null
    /\ cellMapping = FourCells
    /\ isValidating = FALSE
    /\ validations = {}

NextUpload ==
    \/ HandleFileSelect
    \/ ValidateTemplate
    \/ ValidateTemplateSettles
    \/ HandleCellMappingChange
    \/ ClearFile

SpecUpload == InitUpload /\ [][NextUpload]_vars

----------------------------------------------------------------------------
(* Claims *)

\* C1: every result of createBillData has exactly invoiceEnd - invoiceStart + 1
\* records, and record i (0-based) has billNo = invoiceStart + i.
C1_SequentialInvoiceNumbers ==
    pc \in {"created", "done"} =>
        /\ Len(result) = config.invoiceEnd - config.invoiceStart + 1
        /\ \A k \in 1..Len(result) : result[k].billNo = config.invoiceStart + (k - 1)
        /\ \A k, l \in 1..Len(result) : k # l => result[k].billNo # result[l].billNo

\* C1 witness: createBillData has returned three records for invoices 1..3.
C1_Witness ==
    /\ pc = "created"
    /\ config.invoiceStart = 1
    /\ config.invoiceEnd = 3
    /\ Len(result) = 3
    /\ result[3].billNo = 3

\* C2: what generateUnitsDistribution returns has numBills entries, sums to
\* totalUnits and has every entry in [minUnits, maxUnits], whatever was drawn;
\* totalUnits = numBills * minUnits gives minUnits everywhere, and
\* totalUnits = numBills * maxUnits gives maxUnits everywhere.
C2_DistributionSumAndBounds ==
    pc = "returned" =>
        /\ Len(result) = args.numBills
        /\ SumSeq(result) = args.totalUnits
        /\ \A k \in 1..Len(result) :
              args.minUnits <= result[k] /\ result[k] <= args.maxUnits
        /\ args.totalUnits = args.numBills * args.minUnits
              => \A k \in 1..Len(result) : result[k] = args.minUnits
        /\ args.totalUnits = args.numBills * args.maxUnits
              => \A k \in 1..Len(result) : result[k] = args.maxUnits

\* C2 witness: a returned distribution over three bills that the draws made
\* uneven, with totalUnits strictly between the two limits.
C2_Witness ==
    /\ pc = "returned"
    /\ args.numBills = 3
    /\ args.numBills * args.minUnits < args.totalUnits
    /\ args.totalUnits < args.numBills * args.maxUnits
    /\ result[1] = args.maxUnits
    /\ result[2] = args.minUnits
    /\ result[3] > result[2]

\* The seven preconditions of the distributor, in the order of the claim.
DistributorPreconditions(a) ==
    <<a.minUnits > 0, a.maxUnits > 0, a.minUnits <= a.maxUnits,
      a.totalUnits > 0, a.numBills > 0,
      a.totalUnits >= a.numBills * a.minUnits,
      a.totalUnits <= a.numBills * a.maxUnits>>

DistributorMessages ==
    <<"Minimum units per bill must be greater than 0",
      "Maximum units per bill must be greater than 0",
      "Minimum units cannot be greater than maximum units",
      "Total units to sell must be greater than 0",
      "Number of bills must be greater than 0",
      "Cannot distribute: total units below minimum possible total",
      "Cannot distribute: total units above maximum possible total">>

FirstViolated(a) ==
    CHOOSE k \in 1..7 :
        /\ ~ DistributorPreconditions(a)[k]
        /\ \A l \in 1..(k - 1) : DistributorPreconditions(a)[l]

\* C3: generateUnitsDistribution throws exactly when one of the seven
\* preconditions is violated, with the error of the first one violated; with
\* all seven satisfied it does not fail (so for 645 units over 129 bills of
\* 2..12 units).
C3_FailsIffPreconditionViolated ==
    /\ pc # "generateUnitsDistribution" =>
          /\ pc = "failed" <=> \E k \in 1..7 : ~ DistributorPreconditions(args)[k]
          /\ pc = "failed" => error = DistributorMessages[FirstViolated(args)]
          /\ pc # "failed" => error = ""
    /\ UnitsDistributionError(645, 129, 2, 12) = ""

\* C3 witness: two preconditions are violated (min <= max and total > 0) and
\* the error is the one of the first.
C3_Witness ==
    /\ pc = "failed"
    /\ args.minUnits > args.maxUnits
    /\ args.maxUnits > 0
    /\ args.totalUnits <= 0
    /\ error = "Minimum units cannot be greater than maximum units"

\* The day number (days since 1970-01-01) that a date string DD-MM-YYYY names.
DayNumberOf(dateString) ==
    DaysFromCivil(NumberOf(dateString[3]), NumberOf(dateString[2]),
                  NumberOf(dateString[1]))

\* The calendar days first..last (day numbers) whose weekday is not excluded,
\* ascending, each as DD-MM-YYYY.
CalendarDays(first, last, excludeWeekdays) ==
    LET all  == [k \in 1..(last - first + 1) |-> first + k - 1]
        kept == SelectSeq(all, LAMBDA z : WeekdayOfDays(z) \notin excludeWeekdays)
    IN  [k \in 1..Len(kept) |->
            DateString(CivilFromDays(kept[k]).day, CivilFromDays(kept[k]).month,
                       CivilFromDays(kept[k]).year)]

\* C4: in specific-dates mode with a configured list of which no date remains
\* after the weekday filter (the empty list included), createBillData, called
\* directly or by generateBills, never returns records: nothing is created or
\* installed, and a failure carries a non-empty message.
C4_EmptySpecificDatesFail ==
    (/\ config.dateMode = Some("specific-dates")
     /\ IsDefined(config.specificDates)
     /\ FilterSpecificDates(Get(config.specificDates), config.excludeWeekdays) = <<>>)
    => /\ pc \notin {"created", "done"}
       /\ billData = <<>>
       /\ pc = "failed" => error # ""

\* C5: with allowMultipleInvoicesPerDay disabled, the records that
\* createBillData returns carry strictly ascending (so pairwise distinct)
\* calendar days, in every date mode.
C5_DistinctAscendingDates ==
    (pc \in {"created", "done"} /\ ~ config.allowMultipleInvoicesPerDay)
    => \A k, l \in 1..Len(result) :
          k < l => DayNumberOf(result[k].date) < DayNumberOf(result[l].date)

\* C6: with allowMultipleInvoicesPerDay disabled, createBillData fails and
\* returns no records when there are fewer expanded dates than records, and
\* otherwise record i carries the i-th expanded date.
C6_OneDatePerRecordInOrder ==
    ~ config.allowMultipleInvoicesPerDay
    => /\ (/\ ExpandedDates(config).ok
           /\ Len(ExpandedDates(config).value)
                 < config.invoiceEnd - config.invoiceStart + 1)
          => /\ pc \notin {"generateUnitsDistribution", "allocate", "shuffle",
                           "returned", "created", "done"}
             /\ pc \notin {"generateBills", "createBillData"}
                   => pc = "failed" /\ error # "" /\ billData = <<>>
       /\ pc \in {"created", "done"}
          => /\ Len(result) = config.invoiceEnd - config.invoiceStart + 1
             /\ Len(result) <= Len(ExpandedDates(config).value)
             /\ \A k \in 1..Len(result) :
                   result[k].date = ExpandedDates(config).value[k]

\* C6 witness: createBillData has returned two records over more than two
\* expanded dates, the second record on the second date.
C6_Witness ==
    /\ pc = "created"
    /\ ~ config.allowMultipleInvoicesPerDay
    /\ Len(result) = 2
    /\ Len(validDates) > 2
    /\ result[2].date = validDates[2]
    /\ validDates[2] # validDates[1]

\* ceil(n / len): the least p with p * len >= n.
CeilingOf(n, len) == CHOOSE p \in 0..n : p * len >= n /\ (p - 1) * len < n

\* C7: over a non-empty date list distributeInvoicesAcrossDates returns
\* numBills dates, entry i being dates[floor(i / perDate) mod len] with
\* perDate = ceil(numBills / len); the dates do not decrease along the
\* records and no date is given to more than perDate records.
C7_CeilingDistribution ==
    (pc # "distributeInvoicesAcrossDates" /\ Len(args.availableDates) > 0)
    => /\ pc = "returned"
       /\ Len(result) = args.numBills
       /\ \A k \in 0..(args.numBills - 1) :
             result[k + 1] =
                args.availableDates[
                   ((k \div CeilingOf(args.numBills, Len(args.availableDates)))
                       % Len(args.availableDates)) + 1]
       /\ \A k, l \in 1..Len(result) :
             k < l => DayNumberOf(result[k]) <= DayNumberOf(result[l])
       /\ \A d \in 1..Len(args.availableDates) :
             Cardinality({k \in 1..Len(result) : result[k] = args.availableDates[d]})
                <= CeilingOf(args.numBills, Len(args.availableDates))

\* C7 witness: ten records over three dates, four on the first date and two
\* on the third.
C7_Witness ==
    /\ pc = "returned"
    /\ args.numBills = 10
    /\ Len(args.availableDates) = 3
    /\ result[4] = args.availableDates[1]
    /\ result[5] = args.availableDates[2]
    /\ result[9] = args.availableDates[3]
    /\ result[10] = args.availableDates[3]

MonthRangeMode == config.dateMode \in {Undefined, Some("month-range")}

\* What month-range mode is to return: the days from the first of the start
\* month to the day before the first of the month after the end month.
ExpectedMonthRange ==
    CalendarDays(DaysFromCivil(config.startYear, config.startMonth, 1),
                 DaysFromCivil(config.endYear, config.endMonth + 1, 1) - 1,
                 config.excludeWeekdays)

\* C9: in month-range mode, the start month not after the end month,
\* generateDateRange returns exactly the days of the months from start to
\* end whose weekday is not excluded, ascending (and fails when there is
\* none); for one month the single-month loop and the multi-month loop give
\* the same sequence.
C9_MonthRangeDays ==
    (/\ pc # "generateDateRange"
     /\ MonthRangeMode
     /\ MonthIndex(config.startMonth, config.startYear)
           <= MonthIndex(config.endMonth, config.endYear))
    => /\ IF ExpectedMonthRange = <<>>
          THEN pc = "failed"
          ELSE pc = "returned" /\ result = ExpectedMonthRange
       /\ (config.startMonth = config.endMonth /\ config.startYear = config.endYear)
          => SingleMonthLoop(1, LastDayOfMonth(config.startMonth, config.startYear),
                             config.startMonth, config.startYear,
                             config.excludeWeekdays)
             = MultiMonthLoop(NewDate(config.startYear, config.startMonth - 1, 1),
                              NewDate(config.endYear, config.endMonth, 0),
                              config.excludeWeekdays)

\* A date string names a day of the calendar: three numbers, the day within
\* the month.
NamesCalendarDay(dateString) ==
    /\ Len(dateString) >= 3
    /\ \A k \in 1..3 : IsDigits(dateString[k])
    /\ NumberOf(dateString[2]) \in 1..12
    /\ NumberOf(dateString[1]) >= 1
    /\ DayNumberOf(dateString)
          < DaysFromCivil(NumberOf(dateString[3]), NumberOf(dateString[2]) + 1, 1)

\* C10: in exact-range mode with both date strings given, generateDateRange
\* fails when one of them names no day of the calendar or when start is
\* after end, and otherwise returns exactly the days start..end whose weekday
\* is not excluded, ascending (failing when there is none).
C10_ExactRangeDays ==
    (/\ pc # "generateDateRange"
     /\ config.dateMode = Some("exact-range")
     /\ IsDefined(config.exactStartDate)
     /\ IsDefined(config.exactEndDate))
    => IF \/ ~ NamesCalendarDay(Get(config.exactStartDate))
          \/ ~ NamesCalendarDay(Get(config.exactEndDate))
       THEN pc = "failed" /\ error # ""
       ELSE IF DayNumberOf(Get(config.exactStartDate))
                  > DayNumberOf(Get(config.exactEndDate))
       THEN pc = "failed" /\ error # ""
       ELSE IF CalendarDays(DayNumberOf(Get(config.exactStartDate)),
                            DayNumberOf(Get(config.exactEndDate)),
                            config.excludeWeekdays) = <<>>
       THEN pc = "failed"
       ELSE /\ pc = "returned"
            /\ result = CalendarDays(DayNumberOf(Get(config.exactStartDate)),
                                     DayNumberOf(Get(config.exactEndDate)),
                                     config.excludeWeekdays)

\* A date string is DD-MM-YYYY: two digits, two digits, four digits.
CanonicalForm(dateString) ==
    /\ Len(dateString) = 3
    /\ \A k \in 1..3 : IsDigits(dateString[k])
    /\ Len(dateString[1]) = 2
    /\ Len(dateString[2]) = 2
    /\ Len(dateString[3]) = 4

\* C11: every date string carried by a record that createBillData returns is
\* in the canonical form DD-MM-YYYY, in each of the three date modes.
C11_CanonicalDateStrings ==
    pc \in {"created", "done"}
    => \A k \in 1..Len(result) : CanonicalForm(result[k].date)

\* The date string has (at least) three parts, all numbers.
ThreeNumbers(dateString) ==
    Len(dateString) >= 3 /\ \A k \in 1..3 : IsDigits(dateString[k])

\* The year that new Date(year, ...) takes a year argument for.
DateYearOf(year) == IF 0 <= year /\ year <= 99 THEN 1900 + year ELSE year

\* Rebuilding a date from (day, month, year), day and month running over
\* into the neighbouring months, gives back the same day, month and year.
Rebuilds(day, month, year) ==
    CivilFromDays(DaysFromCivil(DateYearOf(year) + (month - 1) \div 12,
                                ((month - 1) % 12) + 1, 1) + day - 1)
        = [year |-> year, month |-> month, day |-> day]

\* C12: parseDate returns a date exactly when the day, month and year read
\* from the string rebuild to the same day, month and year (31-02-2025 and
\* 29-02-2025 give null), and formatDate gives back every canonical string
\* that parseDate accepted.
C12_ParseDateRoundTrip ==
    /\ pc = "parsed"
       => (IsDefined(result)
             <=> /\ ThreeNumbers(args.dateString)
                 /\ Rebuilds(NumberOf(args.dateString[1]),
                             NumberOf(args.dateString[2]),
                             NumberOf(args.dateString[3])))
    /\ (pc = "formatted" /\ CanonicalForm(args.dateString))
       => result = args.dateString
    /\ parseDate(DateString(31, 2, 2025)) = Undefined
    /\ parseDate(DateString(29, 2, 2025)) = Undefined
    /\ parseDate(DateString(29, 2, 2024)) # Undefined

\* C13: every record that createBillData returns has amount = units *
\* unitPrice, and the amount is not negative.
C13_AmountsNonNegative ==
    pc \in {"created", "done"}
    => \A k \in 1..Len(result) :
          /\ result[k].amount = result[k].units * config.unitPrice
          /\ result[k].amount >= 0

\* The characters of a string of the model, as one string.
RECURSIVE Join(_)
Join(str) == IF str = <<>> THEN "" ELSE Head(str) \o Join(Tail(str))

\* English names, from the largest group down.  Name(k, cap): the k-th of the
\* words zero, one, .. nineteen, twenty, thirty, .. ninety, capitalised if cap.
Name(k, cap) == IF cap THEN UpperCase[k] ELSE LowerCase[k]

\* 1..99
EnglishTens(n, cap) ==
    IF n < 20 THEN Name(n + 1, cap)
    ELSE Name(19 + n \div 10, cap)
            \o (IF n % 10 = 0 THEN "" ELSE "-" \o Name((n % 10) + 1, FALSE))

\* 1..999
EnglishHundreds(n, cap) ==
    IF n < 100 THEN EnglishTens(n, cap)
    ELSE Name((n \div 100) + 1, cap) \o " hundred"
            \o (IF n % 100 = 0 THEN "" ELSE " " \o EnglishTens(n % 100, FALSE))

ScaleNames == <<"thousand", "million", "billion">>
ScaleOf(k) == IF k = 1 THEN 1000 ELSE IF k = 2 THEN 1000000 ELSE 1000000000

\* n >= 1, below 1000 times the k-th scale
RECURSIVE EnglishScaled(_, _, _)
EnglishScaled(n, k, cap) ==
    IF k = 0 THEN EnglishHundreds(n, cap)
    ELSE IF n \div ScaleOf(k) = 0 THEN EnglishScaled(n, k - 1, cap)
    ELSE EnglishHundreds(n \div ScaleOf(k), cap) \o " " \o ScaleNames[k]
            \o (IF n % ScaleOf(k) = 0 THEN ""
                ELSE " " \o EnglishScaled(n % ScaleOf(k), k - 1, FALSE))

English(n, cap) == IF n = 0 THEN Name(1, cap) ELSE EnglishScaled(n, 3, cap)

\* C14: for an amount n >= 0 (here below 2^31), generateAmountInWords(n) is
\* "( Rs. " + W + " only )", W the English short-scale name of n with its
\* first letter capitalised: single spaces, none leading or trailing;
\* generateAmountInWords(100) is "( Rs. One hundred only )".
C14_AmountInWords ==
    /\ (pc = "returned" /\ args.amount >= 0)
       => /\ Join(result) = "( Rs. " \o English(args.amount, TRUE) \o " only )"
          /\ \A k \in 1..(Len(result) - 1) : ~ (result[k] = " " /\ result[k + 1] = " ")
    /\ Join(generateAmountInWords(100)) = "( Rs. One hundred only )"
    /\ Join(numberToWords(0)) = "zero"

\* C14 witness: an amount with all four groups, a compound of tens, a round
\* hundred and a hundred with a remainder.
C14_Witness ==
    /\ pc = "returned"
    /\ args.amount = 1021100999
    /\ Join(result) = "( Rs. One billion twenty-one million one hundred thousand nine hundred ninety-nine only )"

\* The cell mapping of a config, as validateExcelTemplate is given it.
MappingOf(cfg) ==
    [invoiceCell |-> Some(cfg.invoiceCell), dateCell |-> Some(cfg.dateCell),
     unitsCell |-> Some(cfg.unitsCell),
     amountWordsCell |-> Some(cfg.amountWordsCell)]

NoFaults == [step |-> "none", cells |-> {}]

\* The addresses that the four mappings of the call point to.
MappedAddresses == {CellMappings(args.bill, args.config)[k].address : k \in 1..4}

\* C15: when validation accepts the cell mapping, the workbook that
\* generateSingleExcelBillBinary returns (no update of a cell having raised)
\* holds at the four mapped cells the invoice number, the date, the units and
\* the amount in words, each with the style of the template; every other cell
\* and the merged ranges are those of the template.
C15_PopulateReadBack ==
    (/\ pc = "returned"
     /\ call = "generateSingleExcelBillBinary"
     /\ result # Null
     /\ args.faults.cells = {}
     /\ validateExcelTemplate(args.templateFile, MappingOf(args.config), NoFaults).isValid)
    => /\ \A k \in 1..4 :
             /\ Get(result).cells[CellMappings(args.bill, args.config)[k].address].value
                   = CellMappings(args.bill, args.config)[k].value
             /\ Get(result).cells[CellMappings(args.bill, args.config)[k].address].style
                   = args.templateFile.cells[
                        CellMappings(args.bill, args.config)[k].address].style
       /\ \A a \in SheetAddresses \ MappedAddresses :
             Get(result).cells[a] = args.templateFile.cells[a]
       /\ Get(result).merges = args.templateFile.merges

\* The mappings whose assignment cell.value = mapping.value was executed.
WrittenMappings ==
    {k \in 1..4 :
        /\ k \notin args.faults.cells
        /\ ~ GetCellRaises(CellMappings(args.bill, args.config)[k].address)}

\* A step of the run raised an exception: the library did not load, the file
\* could not be read or loaded, it has no worksheet, the update of a mapped
\* cell raised, or the workbook could not be serialised.
SomeStepRaised ==
    PopulationRaised(args.bill, args.config, args.templateFile, args.faults)

\* C16: generateSingleExcelBillBinary returns null when a step raised an
\* exception, and returns a workbook only with all four values written.
C16_FailureSignal ==
    (pc = "returned" /\ call = "generateSingleExcelBillBinary")
    => /\ SomeStepRaised => result = Null
       /\ result # Null => WrittenMappings = 1..4

\* The files of an archive, as a set.
FilesOf(archive) == {archive[k] : k \in 1..Len(archive)}

\* The population of record k (1-based) succeeded: it settled and no step
\* of it raised an exception.
PopulationSucceeded(k) == outcomes[k].settled /\ ~ outcomes[k].raised

\* C17: the archive that generateExcelBillsAsZip returns holds one file per
\* record, Invoice_<billNo>.xlsx when the population of the record succeeded
\* and Error_Invoice_<billNo>.txt when it failed, and all records were
\* processed whichever of them failed.
C17_OneEntryPerRecord ==
    pc = "resolved"
    => /\ Len(result) = Len(billData)
       /\ \A k \in 1..Len(billData) :
             /\ InvoiceFile(billData[k]) \in FilesOf(result)
                   <=> PopulationSucceeded(k)
             /\ ErrorFile(billData[k]) \in FilesOf(result)
                   <=> ~ PopulationSucceeded(k)

\* C18: a batch export that was started and met failures of records only
\* ends with the archive downloaded and a report of the number of records
\* that succeeded, the others having produced error placeholders.
C18_BatchCompletesAndReports ==
    (/\ call = "downloadZip"
     /\ pc = "done"
     /\ templateFile # Null
     /\ Len(billData) > 0
     /\ error = "")
    => /\ ~ isGeneratingZip
       /\ Len(result) = Len(billData)
       /\ Len(toasts) = 1
       /\ toasts[1].variant = "success"
       /\ toasts[1].count
             = Cardinality({k \in 1..Len(billData) :
                               InvoiceFile(billData[k]) \in FilesOf(result)})

\* C19: within a batch export the records are populated one at a time in
\* list order: at most one population is in flight, it is the one of record
\* i, every record before it has settled and has its file in the archive,
\* and no record after it has started.
C19_OneRecordAtATime ==
    call = "downloadZip"
    => /\ Cardinality(inFlight) <= 1
       /\ inFlight \subseteq {i}
       /\ pc = "awaiting" => i < Len(billData)
       /\ \A k \in 1..Len(outcomes) :
             /\ k <= i => outcomes[k].settled
             /\ k > i + 1 => ~ outcomes[k].settled
             /\ (k = i + 1 /\ pc = "loop") => ~ outcomes[k].settled
       /\ pc \in {"loop", "awaiting"}
          => /\ Len(zip) = i
             /\ \A k \in 1..Len(zip) : zip[k].billNo = billData[k].billNo

\* C19 witness: the third record is being populated, the first two have
\* settled, one with a blob and one with null, and have their files.
C19_Witness ==
    /\ pc = "awaiting"
    /\ i = 2
    /\ inFlight = {2}
    /\ outcomes[1].settled /\ outcomes[1].blob = Null
    /\ outcomes[2].settled /\ outcomes[2].blob # Null
    /\ zip = <<ErrorFile(billData[1]), InvoiceFile(billData[2])>>

\* Column letters followed by row digits, blanks around them aside.
ColumnLettersRowDigits(address) ==
    LET str == Trim(address)
    IN  \E n \in 1..(Len(str) - 1) :
           /\ \A k \in 1..n : str[k] \in Letters
           /\ \A k \in (n + 1)..Len(str) : str[k] \in DigitChars

\* The mapped address k of the call is missing, malformed or inaccessible.
ProblemAddress(k) ==
    LET address == cellsToCheck(args.cellMapping)[k].address
    IN  \/ address = Undefined
        \/ ~ ColumnLettersRowDigits(Get(address))
        \/ k \in args.faults.cells

\* The errors of the returned list that name mapped address k.
ErrorsNaming(k) ==
    {e \in 1..Len(result.errors) :
        result.errors[e].name = cellsToCheck(args.cellMapping)[k].name}

\* The template of the call loads and has a worksheet.
TemplateLoads ==
    /\ args.faults.step = "none"
    /\ args.templateFile.size > 0
    /\ args.templateFile.size <= MaxTemplateSize
    /\ args.templateFile.readable
    /\ args.templateFile.loads
    /\ args.templateFile.hasWorksheet

\* C20: for a template that loads and has a worksheet, the error list of
\* validateExcelTemplate has one entry for each of the four mapped addresses
\* that is missing, malformed or inaccessible, whatever the addresses before
\* it were; isValid is true exactly when the error list is empty, the
\* preview is present exactly when isValid is true, and the template file is
\* the one that was passed.
C20_AllAddressesChecked ==
    (call = "validateExcelTemplate" /\ pc = "returned")
    => /\ result.isValid <=> result.errors = <<>>
       /\ IsDefined(result.preview) <=> result.isValid
       /\ templateFile = Some(args.templateFile)
       /\ TemplateLoads
          => /\ \A k \in 1..4 :
                   Cardinality(ErrorsNaming(k))
                      = (IF ProblemAddress(k) THEN 1 ELSE 0)
             /\ result.isValid => Len(Get(result.preview)) = 4

\* C20 witness: the invoice address is missing, the units address is
\* malformed and the amount address is inaccessible; all three are reported.
C20_Witness ==
    /\ call = "validateExcelTemplate"
    /\ pc = "returned"
    /\ TemplateLoads
    /\ args.cellMapping.invoiceCell = Undefined
    /\ args.cellMapping.dateCell = Some(CellB2)
    /\ args.cellMapping.unitsCell = Some(<<"C">>)
    /\ args.cellMapping.amountWordsCell = Some(CellD4)
    /\ args.faults.cells = {3, 4}
    /\ ActualRowCount(args.templateFile.cells) > 0
    /\ Len(result.errors) = 3
    /\ ~ result.isValid
    /\ result.preview = Undefined

\* Some slot can still absorb units.
SomeFreeCapacity == \E k \in 1..Len(units) : args.maxUnits - units[k] > 0

\* What holds at every pass of the allocation loop.
AllocationLoopInvariant ==
    pc = "allocate"
    => /\ remaining > 0
       /\ SomeFreeCapacity
       /\ \A k \in 1..Len(units) :
             args.minUnits <= units[k] /\ units[k] <= args.maxUnits
       /\ SumSeq(units) + remaining = args.totalUnits

\* C24: for inputs that satisfy the preconditions of the distributor the
\* allocation loop of generateUnitsDistribution ends when a draw that can be
\* positive is not zero for ever; while units remain some slot has free
\* capacity, remaining never is negative, every slot stays in
\* [minUnits, maxUnits] and the slots and remaining add up to totalUnits.
C24_AllocationTerminates ==
    /\ [](AllocationLoopInvariant /\ remaining >= 0)
    /\ <>(pc \in {"returned", "failed"})

\* C24 witness: in the loop with units left to place, at a slot that is
\* full while another slot has free capacity.
C24_Witness ==
    /\ pc = "allocate"
    /\ remaining > 0
    /\ args.numBills = 3
    /\ units[i + 1] = args.maxUnits
    /\ SomeFreeCapacity

\* C25: in exact-range mode every date of a result of createBillData lies in
\* [exactStartDate, exactEndDate]; a result never holds dates derived from
\* the month fields, whether or not the two exact dates are given.
C25_ExactRangeNoFallback ==
    (pc = "created" /\ config.dateMode = Some("exact-range"))
    => /\ IsDefined(config.exactStartDate)
       /\ IsDefined(config.exactEndDate)
       /\ NamesCalendarDay(Get(config.exactStartDate))
       /\ NamesCalendarDay(Get(config.exactEndDate))
       /\ \A k \in 1..Len(result) :
             /\ DayNumberOf(Get(config.exactStartDate)) <= DayNumberOf(result[k].date)
             /\ DayNumberOf(result[k].date) <= DayNumberOf(Get(config.exactEndDate))

\* Attempt k (1-based) of the run yielded a module that exposes Workbook.
AttemptSucceeded(k) ==
    /\ ~ imports[k].rejected
    /\ (IF k = 2 /\ imports[k].default = "undefined"
        THEN imports[k].namespace ELSE imports[k].default) = "ExcelJS"

\* The message of the failure of attempt k.
AttemptMessage(k) ==
    IF imports[k].rejected THEN imports[k].message ELSE WorkbookNotFound(k)

\* The delays awaited when n attempts have failed and the next, if there is
\* one, has made its import.
DelaysAfter(n) ==
    IF n = 0 THEN <<>>
    ELSE IF n = 1 THEN <<500>>
    ELSE <<500, 1000, 1000>>

\* C30: loadExcelJS ends after at most 3 imports.  It returns at the first
\* attempt whose module exposes Workbook, it throws only when three attempts
\* have failed, with the message of the last one, and it has waited after
\* the first and the second failure but not after the third.
C30_LoadTerminates ==
    /\ [](/\ Len(imports) <= 3
          /\ attempt <= 3
          /\ pc = "loaded"
             => /\ Len(imports) = attempt
                /\ AttemptSucceeded(attempt)
                /\ \A k \in 1..(attempt - 1) : ~ AttemptSucceeded(k)
                /\ timers = DelaysAfter(attempt - 1)
          /\ pc = "loadFailed"
             => /\ Len(imports) = 3
                /\ \A k \in 1..3 : ~ AttemptSucceeded(k)
                /\ error = "Failed to load ExcelJS library after 3 attempts. Last error: "
                              \o AttemptMessage(3)
                /\ timers = DelaysAfter(2))
    /\ <>(pc \in {"loaded", "loadFailed"})

\* C30 witness: the third attempt failed after two failures of other kinds;
\* the error carries its message.
C30_Witness ==
    /\ pc = "loadFailed"
    /\ imports[1].rejected
    /\ ~ imports[2].rejected
    /\ imports[3].rejected
    /\ imports[3].message = "Network error"
    /\ lastError = "Network error"

\* The call is one that the claim says must be reported as a failure: the
\* library did not load, the file is empty, above 50MB or corrupt, or the
\* timer fired before the load had completed.
MustFailValidation ==
    \/ error # ""
    \/ args.templateFile.size = 0
    \/ args.templateFile.size > 50 * 1024 * 1024
    \/ ~ args.templateFile.readable
    \/ ~ args.templateFile.loads
    \/ loadPromise = "pending"

\* C21: validateExcelTemplate always resolves with a result and never
\* rejects.  When the load of the workbook has not completed as the
\* 30-second timer fires, the result is isValid = false with a non-empty
\* error list, and so it is for an empty file, a file above 50MB, a corrupt
\* file and a library that failed to load.
C21_ValidationResolves ==
    /\ [](/\ pc \notin {"failed", "rejected"}
          /\ pc = "returned"
             => /\ result.isValid \in BOOLEAN
                /\ MustFailValidation
                   => ~ result.isValid /\ Len(result.errors) > 0)
    /\ <>(pc = "returned")

\* C21 witness: the load of a good template was still pending after 30
\* seconds; the call has resolved with a failure.
C21_Witness ==
    /\ pc = "returned"
    /\ args.templateFile = GoodTemplate
    /\ loadPromise = "pending"
    /\ clock >= 30000
    /\ ~ result.isValid
    /\ Len(result.errors) = 1

\* generateBills is running (or has just ended) and has not installed a result.
GenerateBillsNotInstalled == call = "generateBills" /\ pc # "done"

\* C22: no step of a generateBills run other than the installation of the
\* complete result changes billData or activeTab, and once the run has failed
\* (validateConfigurationLimits reported errors, or createBillData threw) an
\* error is surfaced and isGenerating is false again.
C22_FailedGenerateInstallsNothing ==
    [][GenerateBillsNotInstalled'
          => /\ billData' = billData
             /\ activeTab' = activeTab
             /\ (pc' = "failed" => error' # "" /\ ~ isGenerating')]_vars

\* A run of generateBills has failed while bills of an earlier run were on
\* display and another tab was open.
C22_Witness ==
    /\ call = "generateBills"
    /\ pc = "failed"
    /\ billData # <<>>
    /\ activeTab = "presets"
    /\ error # ""
    /\ ~ isGenerating

\* value || fallback, for an optional date string
DateOrEmpty(o) == IF Truthy(o) THEN Get(o) ELSE EmptyString

\* value || fallback, for an optional field that is not a string
OrElse(o, fallback) == IF IsDefined(o) THEN Get(o) ELSE fallback

\* The preset that the running handler was given.
PresetGiven == savedPresets[args.index]

\* C23: savedPresets changes only by savePreset appending a snapshot of the
\* current config under a non-blank name and by deletePreset removing an
\* entry, so config edits and generations never change a stored preset;
\* savePreset with an empty or whitespace-only name changes nothing; and
\* loadPreset(p) leaves billData empty, config equal to p's snapshot, and the
\* dateMode, specificDates and exact-date state set from that snapshot.
C23_PresetsAreSnapshots ==
    [][/\ (call' \notin {"savePreset", "deletePreset"}
             => savedPresets' = savedPresets)
        /\ (call' = "deletePreset"
             => /\ Len(savedPresets') = Len(savedPresets) - 1
                /\ \A k \in 1..Len(savedPresets') :
                      \E j \in 1..Len(savedPresets) :
                         savedPresets'[k] = savedPresets[j])
        /\ (call' = "savePreset"
             => IF Trim(args'.newPresetName) = <<>>
                THEN UNCHANGED <<savedPresets, config, billData, dateState,
                                 activeTab>>
                ELSE /\ Len(savedPresets') = Len(savedPresets) + 1
                     /\ \A k \in 1..Len(savedPresets) :
                           savedPresets'[k] = savedPresets[k]
                     /\ Last(savedPresets').config = config
                     /\ UNCHANGED <<config, billData, dateState>>)
        /\ (call' = "loadPreset"
             => /\ billData' = <<>>
                /\ config' = PresetGiven'.config
                /\ dateMode' = OrElse(config'.dateMode, "month-range")
                /\ specificDates' = OrElse(config'.specificDates, <<>>)
                /\ exactStartDate' = DateOrEmpty(config'.exactStartDate)
                /\ exactEndDate' = DateOrEmpty(config'.exactEndDate))]_vars

\* loadPreset has installed a preset saved in exact-range mode at a unit
\* price of 500.
C23_Witness ==
    /\ call = "loadPreset"
    /\ config = PresetGiven.config
    /\ config.unitPrice = 500
    /\ dateMode = "exact-range"
    /\ billData = <<>>

\* amount = units * config.unitPrice in every record of billData
AmountsAtCurrentPrice ==
    \A k \in 1..Len(billData) :
       billData[k].amount = billData[k].units * config.unitPrice

\* C26: whenever billData is non-empty, every record's amount is its units
\* times config.unitPrice and there are config.invoiceEnd -
\* config.invoiceStart + 1 records.
C26_BillDataMatchesConfig ==
    billData # <<>>
       => /\ AmountsAtCurrentPrice
          /\ Len(billData) = config.invoiceEnd - config.invoiceStart + 1

\* C29: config.dateMode (month-range when absent) is the dateMode state;
\* in specific-dates mode config.specificDates is the specificDates state; in
\* exact-range mode config.exactStartDate and config.exactEndDate are the
\* exactStartDate and exactEndDate state.
C29_DateStateAgreesWithConfig ==
    /\ DateModeOrDefault(config) = Some(dateMode)
    /\ (dateMode = "specific-dates"
          => config.specificDates = Some(specificDates))
    /\ (dateMode = "exact-range"
          => /\ config.exactStartDate = Some(exactStartDate)
             /\ config.exactEndDate = Some(exactEndDate))

\* A preset saved in exact-range mode with a start date has been loaded while
\* the app was in another mode.
C29_Witness ==
    /\ call = "loadPreset"
    /\ dateMode = "exact-range"
    /\ exactStartDate = DateString(1, 5, 2025)
    /\ config.exactStartDate = Some(exactStartDate)
    /\ specificDates # <<>>

\* C27: at most one export batch, ZIP or PDF, is in flight, and isGeneratingZip
\* and isGeneratingPDF are true exactly while a batch of their kind is in
\* flight.
C27_OneExportInFlight ==
    /\ exports.zip + exports.pdf <= 1
    /\ isGeneratingZip <=> exports.zip > 0
    /\ isGeneratingPDF <=> exports.pdf > 0

\* A shown validation result is that of the selected file and the current
\* cell mapping.
ShownResultIsCurrent ==
    validationResult # Null
       => /\ Get(validationResult).of.file = selectedFile
          /\ Get(validationResult).of.mapping = cellMapping

\* onTemplateUpload hands over the selected file and the current mapping.
HandOffIsCurrent ==
    call' = "handleTemplateUpload"
       => /\ templateFile' = selectedFile
          /\ cellMapping' = cellMapping

\* C28: a validation result that is shown, and every hand-off of a template
\* to the app, is that of the currently selected file and the current cell
\* mapping; the result of a validation overtaken by clearFile or by an edit
\* of the mapping is neither shown nor handed over.
C28_ValidationIsCurrent ==
    [] ShownResultIsCurrent /\ [][HandOffIsCurrent]_vars

====
